---- MODULE Spec2Model ----
(***************************************************************************)
(* Scheduling core of project-resource-planner: the assignment store       *)
(* (useAppData + store.ts), conflict detection (findConflicts) and lane    *)
(* packing (assignLanes).                                                  *)
(*                                                                         *)
(* Dates are stored as ISO "yyyy-MM-dd" strings and compared as strings.   *)
(* All dates of the model share the year-month prefix, so a date string is *)
(* modelled by the characters that differ: the two digits of the day,      *)
(* <<tens, ones>>, compared lexicographically like JavaScript strings.     *)
(***************************************************************************)
EXTENDS Integers, Sequences, FiniteSets, TLC

VARIABLES
    assignments,    \* React state of useAppData: Assignment[]
    localStorage,   \* item "erp_assignments": [present, value]
    members,        \* React state: ids of the members
    projects,       \* React state: ids of the projects
    nextId,         \* number of ids generateId has handed out, plus one
    lastOp,         \* a single call under study: its arguments and its result
    dragState,      \* GanttBar: the drag in progress (mode, bar, dragState ref)
    groupBy,        \* ScheduleView: what the rows are, "team", "member" or "project"
    granularity,    \* ScheduleView: "day", "week", "month" or "quarter"
    offset,         \* ScheduleView: navigation steps from the default range
    now,            \* the clock: the instant new Date() returns
    colWidth        \* ScheduleView: pixels per column

vars == <<assignments, localStorage, members, projects, nextId, lastOp,
          dragState, groupBy, granularity, offset, now, colWidth>>

----------------------------------------------------------------------------
(* Bounds *)

\* The dates are the days 9 .. MaxDay of one month
MaxDay == 10
\* Assignments created in one run
MaxIds == 2
\* Assignments in the store a single call is made on
MaxStored == 2
\* Rows of one imported schedule CSV
MaxRows == 2
\* Days one mousemove of a drag is away from the place of the mousedown
MaxDelta == 1
\* Assignments in the row handed to assignLanes
MaxLane == 3
\* The days new Date() ranges over, from January 1 of 2024 on
NumTodays == 366
\* Navigation steps in either direction
MaxOffset == 1
\* Columns of the timelines that are generated
MaxColumns == 100

Days == 9 .. MaxDay

\* The days of the rows handed to assignLanes
LaneDays == {9, 10, 11}

\* Members and projects are opaque references, only ever compared for
\* equality: two of each.
MemberIds == {1, 2}
ProjectIds == {1, 2}
SeedId == MaxIds + 1      \* "a-1": the seed's id, outside generateId's values
AssignmentIds == 1 .. SeedId
NoId == 0          \* excludeAssignmentId omitted (undefined)

----------------------------------------------------------------------------
(* Date strings *)

\* format(date, "yyyy-MM-dd"): zero-padded, fixed width
dateToString(n) == <<n \div 10, n % 10>>

\* new Date(str + "T00:00:00")
parseDate(s) == s[1] * 10 + s[2]

DateStrings == {dateToString(n) : n \in Days}

LaneDateStrings == {dateToString(n) : n \in LaneDays}

\* JavaScript's < on strings: the first differing code unit decides, a proper
\* prefix is smaller
StrLt(s, t) ==
    \/ \E i \in 1 .. Len(s) :
          /\ i <= Len(t)
          /\ \A j \in 1 .. (i - 1) : s[j] = t[j]
          /\ s[i] < t[i]
    \/ /\ Len(s) < Len(t)
       /\ \A j \in 1 .. Len(s) : s[j] = t[j]

StrLe(s, t) == s = t \/ StrLt(s, t)

StrGt(s, t) == StrLt(t, s)

----------------------------------------------------------------------------
(* store.ts *)

Assignment(id, memberId, projectId, startDate, endDate) ==
    [id |-> id, memberId |-> memberId, projectId |-> projectId,
     startDate |-> startDate, endDate |-> endDate]

\* The seed data, used while the storage item is absent.  The seeds belong to
\* different members and start today; the model keeps the first, "a-1".
DEFAULT_ASSIGNMENTS ==
    <<Assignment(SeedId, 1, 1, dateToString(9), dateToString(9))>>

NoItem == [present |-> FALSE, value |-> <<>>]

\* load(KEYS.assignments, DEFAULT_ASSIGNMENTS)
getAssignments(ls) == IF ls.present THEN ls.value ELSE DEFAULT_ASSIGNMENTS

\* save(KEYS.assignments, assignments)
saveAssignments(list) == [present |-> TRUE, value |-> list]

\* Variants of findConflicts with one slip each
findConflicts_anyMember(ls, memberId, startDate, endDate, excludeAssignmentId) ==
    SelectSeq(getAssignments(ls), LAMBDA a :
        IF excludeAssignmentId # NoId /\ a.id = excludeAssignmentId THEN FALSE
        ELSE StrLe(a.startDate, endDate) /\ StrLe(startDate, a.endDate))

findConflicts_noExclude(ls, memberId, startDate, endDate, excludeAssignmentId) ==
    SelectSeq(getAssignments(ls), LAMBDA a :
        IF a.memberId # memberId THEN FALSE
        ELSE StrLe(a.startDate, endDate) /\ StrLe(startDate, a.endDate))

findConflicts_halfOpen(ls, memberId, startDate, endDate, excludeAssignmentId) ==
    SelectSeq(getAssignments(ls), LAMBDA a :
        IF a.memberId # memberId THEN FALSE
        ELSE IF excludeAssignmentId # NoId /\ a.id = excludeAssignmentId THEN FALSE
        ELSE StrLe(a.startDate, endDate) /\ StrLt(startDate, a.endDate))

findConflicts_oneSided(ls, memberId, startDate, endDate, excludeAssignmentId) ==
    SelectSeq(getAssignments(ls), LAMBDA a :
        IF a.memberId # memberId THEN FALSE
        ELSE IF excludeAssignmentId # NoId /\ a.id = excludeAssignmentId THEN FALSE
        ELSE StrLe(a.startDate, endDate))

findConflicts(ls, memberId, startDate, endDate, excludeAssignmentId) ==
    SelectSeq(getAssignments(ls), LAMBDA a :
        IF a.memberId # memberId THEN FALSE
        ELSE IF excludeAssignmentId # NoId /\ a.id = excludeAssignmentId THEN FALSE
        ELSE StrLe(a.startDate, endDate) /\ StrLe(startDate, a.endDate))

----------------------------------------------------------------------------
(* useAppData.ts: the state updaters handed to setAssignments *)

Updater(kind, id, value) == [kind |-> kind, id |-> id, value |-> value]

NoValue == Assignment(NoId, 0, 0, <<>>, <<>>)

\* The function passed to setAssignments, applied to prev
ApplyUpdater(prev, u) ==
    CASE u.kind = "append" -> Append(prev, u.value)
      [] u.kind = "replace" ->
            [i \in 1 .. Len(prev) |-> IF prev[i].id = u.id THEN u.value ELSE prev[i]]
      [] u.kind = "removeId" -> SelectSeq(prev, LAMBDA a : a.id # u.id)
      [] u.kind = "removeMember" -> SelectSeq(prev, LAMBDA a : a.memberId # u.id)
      [] u.kind = "removeProject" -> SelectSeq(prev, LAMBDA a : a.projectId # u.id)

\* What one event handler has done so far: the storage item as it stands and
\* the updaters queued on the assignments state.
Ctx(ls, q) == [ls |-> ls, q |-> q]

\* setAssignments whose updater returns the list without saving it when it
\* runs at once
setAssignments_noSave(c, mem, u, eager) ==
    IF eager /\ c.q = <<>>
    THEN Ctx(c.ls, <<[u |-> u, eager |-> TRUE]>>)
    ELSE Ctx(c.ls, Append(c.q, [u |-> u, eager |-> FALSE]))

\* setAssignments(updater).  React runs the updater at once when nothing is
\* pending on the component (eager state), otherwise when it renders; the
\* updater saves the list it returns.
setAssignments(c, mem, u, eager) ==
    IF eager /\ c.q = <<>>
    THEN Ctx(saveAssignments(ApplyUpdater(mem, u)), <<[u |-> u, eager |-> TRUE]>>)
    ELSE Ctx(c.ls, Append(c.q, [u |-> u, eager |-> FALSE]))

\* The render that follows the handler: the queued updaters run in order on
\* the state; an updater that already ran eagerly is not run again.
RECURSIVE Render(_, _, _)
Render(mem, ls, q) ==
    IF q = <<>> THEN [mem |-> mem, ls |-> ls]
    ELSE LET next == ApplyUpdater(mem, Head(q).u)
         IN Render(next, IF Head(q).eager THEN ls ELSE saveAssignments(next), Tail(q))

Result(success, conflicts) == [success |-> success, conflicts |-> conflicts]

Range(seq) == {seq[i] : i \in DOMAIN seq}

\* addAssignment that rejects only on two or more conflicts
addAssignment_moreThanOne(c, mem, assignment, id, eager) ==
    LET conflicts == findConflicts(c.ls, assignment.memberId,
                                   assignment.startDate, assignment.endDate, NoId)
    IN IF Len(conflicts) > 1
       THEN [c |-> c, ret |-> Result(FALSE, conflicts)]
       ELSE LET newAssignment == [assignment EXCEPT !.id = id]
            IN [c |-> setAssignments(c, mem, Updater("append", id, newAssignment), eager),
                ret |-> Result(TRUE, <<>>)]

\* addAssignment(assignment): assignment has no id yet; id is what generateId
\* returns.
addAssignment(c, mem, assignment, id, eager) ==
    LET conflicts == findConflicts(c.ls, assignment.memberId,
                                   assignment.startDate, assignment.endDate, NoId)
    IN IF Len(conflicts) > 0
       THEN [c |-> c, ret |-> Result(FALSE, conflicts)]
       ELSE LET newAssignment == [assignment EXCEPT !.id = id]
            IN [c |-> setAssignments(c, mem, Updater("append", id, newAssignment), eager),
                ret |-> Result(TRUE, <<>>)]

\* { ...existing, ...data }
Merge(existing, data) ==
    [f \in DOMAIN existing |-> IF f \in DOMAIN data THEN data[f] ELSE existing[f]]

\* updateAssignment that checks the member the assignment had, not the merged one
updateAssignment_oldMember(c, mem, id, data, eager) ==
    LET found == SelectSeq(getAssignments(c.ls), LAMBDA a : a.id = id)
    IN IF found = <<>>
       THEN [c |-> c, ret |-> Result(FALSE, <<>>)]
       ELSE LET merged == Merge(Head(found), data)
                conflicts == findConflicts(c.ls, Head(found).memberId,
                                           merged.startDate, merged.endDate, id)
            IN IF Len(conflicts) > 0
               THEN [c |-> c, ret |-> Result(FALSE, conflicts)]
               ELSE [c |-> setAssignments(c, mem, Updater("replace", id, merged), eager),
                     ret |-> Result(TRUE, <<>>)]

\* updateAssignment that stores the update although it reports the conflicts
updateAssignment_noReturn(c, mem, id, data, eager) ==
    LET found == SelectSeq(getAssignments(c.ls), LAMBDA a : a.id = id)
    IN IF found = <<>>
       THEN [c |-> c, ret |-> Result(FALSE, <<>>)]
       ELSE LET merged == Merge(Head(found), data)
                conflicts == findConflicts(c.ls, merged.memberId,
                                           merged.startDate, merged.endDate, id)
            IN [c |-> setAssignments(c, mem, Updater("replace", id, merged), eager),
                ret |-> Result(Len(conflicts) = 0, conflicts)]

\* updateAssignment(id, data)
updateAssignment(c, mem, id, data, eager) ==
    LET found == SelectSeq(getAssignments(c.ls), LAMBDA a : a.id = id)
    IN IF found = <<>>
       THEN [c |-> c, ret |-> Result(FALSE, <<>>)]
       ELSE LET merged == Merge(Head(found), data)
                conflicts == findConflicts(c.ls, merged.memberId,
                                           merged.startDate, merged.endDate, id)
            IN IF Len(conflicts) > 0
               THEN [c |-> c, ret |-> Result(FALSE, conflicts)]
               ELSE [c |-> setAssignments(c, mem, Updater("replace", id, merged), eager),
                     ret |-> Result(TRUE, <<>>)]

\* deleteAssignment(id)
deleteAssignment(c, mem, id, eager) ==
    setAssignments(c, mem, Updater("removeId", id, NoValue), eager)

----------------------------------------------------------------------------
(* laneUtils.ts *)

\* The comparator handed to sort: by start date, then by end date.  It never
\* returns 0: for equal start and equal end it returns 1 whichever way round
\* the two are passed.
compare(a, b) ==
    IF a.startDate # b.startDate
    THEN (IF StrLt(a.startDate, b.startDate) THEN -1 ELSE 1)
    ELSE (IF StrLt(a.endDate, b.endDate) THEN -1 ELSE 1)

\* Array.prototype.sort leaves the order implementation-defined when the
\* comparator is not consistent.  Two insertion steps engines use on short
\* arrays: binary insertion that asks comparefn(pivot, element) and goes right
\* unless it is negative (V8), and linear insertion that moves left while
\* comparefn(element, item) is positive (SpiderMonkey).
Engines == {"binaryInsertion", "linearInsertion"}

\* The number of elements of the sorted prefix work that stay before pivot
RECURSIVE BinarySearch(_, _, _, _)
BinarySearch(work, pivot, left, right) ==
    IF left >= right THEN left
    ELSE LET mid == left + ((right - left) \div 2)
         IN IF compare(pivot, work[mid + 1]) < 0
            THEN BinarySearch(work, pivot, left, mid)
            ELSE BinarySearch(work, pivot, mid + 1, right)

RECURSIVE LinearSearch(_, _, _)
LinearSearch(work, item, j) ==
    IF j = 0 THEN 0
    ELSE IF compare(work[j], item) <= 0 THEN j
    ELSE LinearSearch(work, item, j - 1)

InsertAt(work, item, p) ==
    SubSeq(work, 1, p) \o <<item>> \o SubSeq(work, p + 1, Len(work))

\* [...assignments].sort(compare): done is sorted, rest is still to insert
RECURSIVE sort(_, _, _)
sort(done, rest, engine) ==
    IF rest = <<>> THEN done
    ELSE LET item == Head(rest)
             p == IF engine = "binaryInsertion"
                  THEN BinarySearch(done, item, 0, Len(done))
                  ELSE LinearSearch(done, item, Len(done))
         IN sort(InsertAt(done, item, p), Tail(rest), engine)

\* new Map()
EmptyMap == [id \in {} |-> 0]

\* The lane search that also takes a lane ending on the day the assignment
\* starts
firstLane_touching(laneEnds, startDate) ==
    LET free == {i \in 1 .. Len(laneEnds) : StrLe(laneEnds[i], startDate)}
    IN IF free = {} THEN Len(laneEnds) + 1
       ELSE CHOOSE i \in free : \A j \in free : i <= j

\* The lane search that never reuses a lane
firstLane_alwaysNew(laneEnds, startDate) == Len(laneEnds) + 1

\* The lane search that looks at the last lane only
firstLane_lastOnly(laneEnds, startDate) ==
    IF Len(laneEnds) > 0 /\ StrGt(startDate, laneEnds[Len(laneEnds)])
    THEN Len(laneEnds)
    ELSE Len(laneEnds) + 1

\* The inner loop: the first lane whose last end is before startDate, counted
\* from 1; one past the lanes when there is none (placed stays false)
firstLane(laneEnds, startDate) ==
    LET free == {i \in 1 .. Len(laneEnds) : StrGt(startDate, laneEnds[i])}
    IN IF free = {} THEN Len(laneEnds) + 1
       ELSE CHOOSE i \in free : \A j \in free : i <= j

\* The outer loop over sorted; lanes are numbered from 0
RECURSIVE place(_, _, _)
place(sorted, lanes, laneEnds) ==
    IF sorted = <<>>
    THEN [lanes |-> lanes,
          laneCount |-> IF Len(laneEnds) > 1 THEN Len(laneEnds) ELSE 1]
    ELSE LET assignment == Head(sorted)
             i == firstLane(laneEnds, assignment.startDate)
         IN place(Tail(sorted),
                  [id \in DOMAIN lanes \cup {assignment.id} |->
                      IF id = assignment.id THEN i - 1 ELSE lanes[id]],
                  IF i <= Len(laneEnds)
                  THEN [laneEnds EXCEPT ![i] = assignment.endDate]
                  ELSE Append(laneEnds, assignment.endDate))

\* assignLanes that returns the number of lanes opened, 0 for no assignment
assignLanes_noMax(list, engine) ==
    IF Len(list) = 0 THEN [lanes |-> EmptyMap, laneCount |-> 0]
    ELSE place(sort(<<>>, list, engine), EmptyMap, <<>>)

\* assignLanes(assignments), run by an engine
assignLanes(list, engine) ==
    IF Len(list) = 0 THEN [lanes |-> EmptyMap, laneCount |-> 1]
    ELSE place(sort(<<>>, list, engine), EmptyMap, <<>>)

----------------------------------------------------------------------------
(* Dates as date-fns and JavaScript handle them.  A Date is an instant,     *)
(* counted in ticks from midnight of January 1 of Year0 (local time); a     *)
(* date parsed from a stored string is the midnight of its day, new Date()  *)
(* is any instant of the day.                                               *)

\* Instants told apart within one day: midnight and later
TicksPerDay == 2

\* The year of day 0, whose January 1 is a Friday
Year0 == 2021

\* getDay() of day 0 (0 = Sunday)
EpochWeekday == 5

DayOf(t) == t \div TicksPerDay

TimeOf(t) == t % TicksPerDay

\* setHours(0, 0, 0, 0) on a day
Midnight(day) == day * TicksPerDay

\* An instant of the day after midnight
Noon(day) == day * TicksPerDay + 1

IsLeap(y) == (y % 4 = 0 /\ y % 100 # 0) \/ y % 400 = 0

LeapsBefore(y) == ((y - 1) \div 4) - ((y - 1) \div 100) + ((y - 1) \div 400)

DaysBeforeYear(y) == 365 * (y - Year0) + LeapsBefore(y) - LeapsBefore(Year0)

\* Days of the year before month m (0 = January) in a common year
CumDays == <<0, 31, 59, 90, 120, 151, 181, 212, 243, 273, 304, 334, 365>>

DaysBeforeMonth(y, m) == CumDays[m + 1] + (IF IsLeap(y) /\ m >= 2 THEN 1 ELSE 0)

DaysInMonth(y, m) == DaysBeforeMonth(y, m + 1) - DaysBeforeMonth(y, m)

\* The last year of the calendar
LastYear == 2031

\* The first day of every month, the months counted from January of year 0,
\* as a table
MonthStart ==
    [months \in (Year0 * 12) .. (LastYear * 12 + 11) |->
        DaysBeforeYear(months \div 12) + DaysBeforeMonth(months \div 12, months % 12)]
    @@ << >>

\* new Date(y, m, d) as a day; months beyond 0..11 carry into the year
MakeDay(y, m, d) == MonthStart[y * 12 + m] + d - 1

\* The first day new Date() is on
FirstToday == MakeDay(2024, 0, 1)

YearOfDay(day) ==
    LET y == Year0 + (day \div 366)
    IN IF DaysBeforeYear(y + 1) <= day THEN y + 1 ELSE y

MonthOfDay(day) ==
    LET y == YearOfDay(day)
        doy == day - DaysBeforeYear(y)
    IN CHOOSE m \in 0 .. 11 :
          DaysBeforeMonth(y, m) <= doy /\ doy < DaysBeforeMonth(y, m + 1)

\* The calendar: year, month (0 = January) and day of the month of every day,
\* as a table
Calendar ==
    [day \in 0 .. (DaysBeforeYear(LastYear + 1) - 1) |->
        [year |-> YearOfDay(day),
         month |-> MonthOfDay(day),
         date |-> day - DaysBeforeYear(YearOfDay(day))
                      - DaysBeforeMonth(YearOfDay(day), MonthOfDay(day)) + 1]]
    @@ << >>

\* getFullYear(), getMonth(), getDate(), getDay() of the day
getFullYear(day) == Calendar[day].year

getMonth(day) == Calendar[day].month

getDate(day) == Calendar[day].date

getDay(day) == (day + EpochWeekday) % 7

\* date-fns; all keep the time of day unless they are a startOf
addDays(t, amount) == t + amount * TicksPerDay

addWeeks(t, amount) == addDays(t, amount * 7)

\* The day of the month is kept, or cut to the last day of the target month
addMonths(t, amount) ==
    LET day == DayOf(t)
        y == getFullYear(day)
        m == getMonth(day)
        dayOfMonth == getDate(day)
        endOfDesiredMonth == MakeDay(y, m + amount + 1, 0)
        daysInMonth == getDate(endOfDesiredMonth)
    IN IF dayOfMonth >= daysInMonth
       THEN Midnight(endOfDesiredMonth) + TimeOf(t)
       ELSE Midnight(MakeDay(y, m + amount, dayOfMonth)) + TimeOf(t)

addQuarters(t, amount) == addMonths(t, amount * 3)

\* startOfWeek(date, { weekStartsOn: 1 })
startOfWeek(t) ==
    LET day == DayOf(t)
        diff == (IF getDay(day) < 1 THEN 7 ELSE 0) + getDay(day) - 1
    IN Midnight(day - diff)

startOfMonth(t) ==
    LET day == DayOf(t)
    IN Midnight(MakeDay(getFullYear(day), getMonth(day), 1))

startOfQuarter(t) ==
    LET day == DayOf(t)
        currentMonth == getMonth(day)
    IN Midnight(MakeDay(getFullYear(day), currentMonth - (currentMonth % 3), 1))

\* differenceInDays(later, earlier): full days, truncated towards zero
differenceInDays(dateLeft, dateRight) ==
    LET diff == dateLeft - dateRight
    IN IF diff >= 0 THEN diff \div TicksPerDay ELSE 0 - ((0 - diff) \div TicksPerDay)

----------------------------------------------------------------------------
(* dateUtils: getTimelineColumns *)

Granularities == {"day", "week", "month", "quarter"}

\* Pixels per column: the range, the default and the zoom step of each
\* granularity
ZOOM_LEVELS ==
    [day |-> [min |-> 20, max |-> 60, default |-> 36, step |-> 4],
     week |-> [min |-> 30, max |-> 100, default |-> 60, step |-> 10],
     month |-> [min |-> 40, max |-> 160, default |-> 80, step |-> 15],
     quarter |-> [min |-> 60, max |-> 240, default |-> 120, step |-> 20]]

\* dataMinDate / dataMaxDate absent (null)
NoDate == 0 - 1

\* A loop that steps by one week, whatever the granularity
NextColumn_weekly(gran, d) == addWeeks(d, 1)

\* let d = addX(d, 1) of the generation loops
NextColumn(gran, d) ==
    CASE gran = "day" -> addDays(d, 1)
      [] gran = "week" -> addWeeks(d, 1)
      [] gran = "month" -> addMonths(d, 1)
      [] gran = "quarter" -> addQuarters(d, 1)

\* Iterations of a generation loop run in one stretch
Stretch == 16

\* Up to n iterations of
\*   while (d <= endBound) { columns.push(new Date(d)); d = addX(d, 1) }
\* from the loop state st = [d, columns]
RECURSIVE Iterate(_, _, _, _)
Iterate(gran, st, endBound, n) ==
    IF n = 0 \/ ~(st.d <= endBound) THEN st
    ELSE Iterate(gran,
                 [d |-> NextColumn(gran, st.d), columns |-> Append(st.columns, st.d)],
                 endBound, n - 1)

\* The whole loop, stretch after stretch
RECURSIVE Generate(_, _, _, _)
Generate(gran, d, endBound, columns) ==
    IF d <= endBound
    THEN LET st == Iterate(gran, [d |-> d, columns |-> columns], endBound, Stretch)
         IN Generate(gran, st.d, endBound, st.columns)
    ELSE columns

\* A base range whose offset moves both ends
BaseRange_bothEnds(gran, off, today) ==
    CASE gran = "day" ->
            [rangeStart |-> addDays(startOfWeek(addDays(today, 0 - 7)), off * 7),
             rangeEnd |-> addDays(addDays(today, 60), off * 7)]
      [] gran = "week" ->
            [rangeStart |-> addWeeks(startOfWeek(addWeeks(today, 0 - 4)), off * 4),
             rangeEnd |-> addWeeks(addWeeks(today, 12), off * 4)]
      [] gran = "month" ->
            LET sixAhead == addMonths(today, 6)
                endOfYear == Midnight(MakeDay(getFullYear(DayOf(today)), 11, 31))
                rangeEnd == IF sixAhead > endOfYear THEN sixAhead ELSE endOfYear
            IN [rangeStart |-> addMonths(startOfMonth(addMonths(today, 0 - 2)), off * 3),
                rangeEnd |-> addMonths(rangeEnd, off * 3)]
      [] gran = "quarter" ->
            [rangeStart |-> addQuarters(startOfQuarter(addQuarters(today, 0 - 2)), off * 2),
             rangeEnd |-> addQuarters(addQuarters(today, 12), off * 2)]

\* A base range that looks one bucket back only
BaseRange_oneBack(gran, off, today) ==
    CASE gran = "day" ->
            LET rangeStart == startOfWeek(addDays(today, 0 - 1))
                rangeEnd == addDays(today, 60)
            IN [rangeStart |-> IF off < 0 THEN addDays(rangeStart, off * 7) ELSE rangeStart,
                rangeEnd |-> IF off > 0 THEN addDays(rangeEnd, off * 7) ELSE rangeEnd]
      [] gran = "week" ->
            LET rangeStart == startOfWeek(addWeeks(today, 0 - 1))
                rangeEnd == addWeeks(today, 12)
            IN [rangeStart |-> IF off < 0 THEN addWeeks(rangeStart, off * 4) ELSE rangeStart,
                rangeEnd |-> IF off > 0 THEN addWeeks(rangeEnd, off * 4) ELSE rangeEnd]
      [] gran = "month" ->
            LET rangeStart == startOfMonth(addMonths(today, 0 - 1))
                sixAhead == addMonths(today, 6)
                endOfYear == Midnight(MakeDay(getFullYear(DayOf(today)), 11, 31))
                rangeEnd == IF sixAhead > endOfYear THEN sixAhead ELSE endOfYear
            IN [rangeStart |-> IF off < 0 THEN addMonths(rangeStart, off * 3) ELSE rangeStart,
                rangeEnd |-> IF off > 0 THEN addMonths(rangeEnd, off * 3) ELSE rangeEnd]
      [] gran = "quarter" ->
            LET rangeStart == startOfQuarter(addQuarters(today, 0 - 1))
                rangeEnd == addQuarters(today, 12)
            IN [rangeStart |-> IF off < 0 THEN addQuarters(rangeStart, off * 2) ELSE rangeStart,
                rangeEnd |-> IF off > 0 THEN addQuarters(rangeEnd, off * 2) ELSE rangeEnd]

\* A base range whose month look-ahead is six months, whatever the year's end
BaseRange_sixAheadOnly(gran, off, today) ==
    CASE gran = "day" ->
            LET rangeStart == startOfWeek(addDays(today, 0 - 7))
                rangeEnd == addDays(today, 60)
            IN [rangeStart |-> IF off < 0 THEN addDays(rangeStart, off * 7) ELSE rangeStart,
                rangeEnd |-> IF off > 0 THEN addDays(rangeEnd, off * 7) ELSE rangeEnd]
      [] gran = "week" ->
            LET rangeStart == startOfWeek(addWeeks(today, 0 - 4))
                rangeEnd == addWeeks(today, 12)
            IN [rangeStart |-> IF off < 0 THEN addWeeks(rangeStart, off * 4) ELSE rangeStart,
                rangeEnd |-> IF off > 0 THEN addWeeks(rangeEnd, off * 4) ELSE rangeEnd]
      [] gran = "month" ->
            LET rangeStart == startOfMonth(addMonths(today, 0 - 2))
                rangeEnd == addMonths(today, 6)
            IN [rangeStart |-> IF off < 0 THEN addMonths(rangeStart, off * 3) ELSE rangeStart,
                rangeEnd |-> IF off > 0 THEN addMonths(rangeEnd, off * 3) ELSE rangeEnd]
      [] gran = "quarter" ->
            LET rangeStart == startOfQuarter(addQuarters(today, 0 - 2))
                rangeEnd == addQuarters(today, 12)
            IN [rangeStart |-> IF off < 0 THEN addQuarters(rangeStart, off * 2) ELSE rangeStart,
                rangeEnd |-> IF off > 0 THEN addQuarters(rangeEnd, off * 2) ELSE rangeEnd]

\* The base range of lines 30-57, today being the instant of the call
BaseRange(gran, off, today) ==
    CASE gran = "day" ->
            LET rangeStart == startOfWeek(addDays(today, 0 - 7))
                rangeEnd == addDays(today, 60)
            IN [rangeStart |-> IF off < 0 THEN addDays(rangeStart, off * 7) ELSE rangeStart,
                rangeEnd |-> IF off > 0 THEN addDays(rangeEnd, off * 7) ELSE rangeEnd]
      [] gran = "week" ->
            LET rangeStart == startOfWeek(addWeeks(today, 0 - 4))
                rangeEnd == addWeeks(today, 12)
            IN [rangeStart |-> IF off < 0 THEN addWeeks(rangeStart, off * 4) ELSE rangeStart,
                rangeEnd |-> IF off > 0 THEN addWeeks(rangeEnd, off * 4) ELSE rangeEnd]
      [] gran = "month" ->
            LET rangeStart == startOfMonth(addMonths(today, 0 - 2))
                sixAhead == addMonths(today, 6)
                endOfYear == Midnight(MakeDay(getFullYear(DayOf(today)), 11, 31))
                rangeEnd == IF sixAhead > endOfYear THEN sixAhead ELSE endOfYear
            IN [rangeStart |-> IF off < 0 THEN addMonths(rangeStart, off * 3) ELSE rangeStart,
                rangeEnd |-> IF off > 0 THEN addMonths(rangeEnd, off * 3) ELSE rangeEnd]
      [] gran = "quarter" ->
            LET rangeStart == startOfQuarter(addQuarters(today, 0 - 2))
                rangeEnd == addQuarters(today, 12)
            IN [rangeStart |-> IF off < 0 THEN addQuarters(rangeStart, off * 2) ELSE rangeStart,
                rangeEnd |-> IF off > 0 THEN addQuarters(rangeEnd, off * 2) ELSE rangeEnd]

\* A clamp that never extends the end of the range
DataRange_noMax(gran, range, dataMinDate, dataMaxDate) ==
    [rangeStart |->
        IF dataMinDate # NoDate /\ dataMinDate < range.rangeStart
        THEN CASE gran = "day" -> startOfWeek(dataMinDate)
               [] gran = "week" -> startOfWeek(dataMinDate)
               [] gran = "month" -> startOfMonth(dataMinDate)
               [] gran = "quarter" -> startOfQuarter(dataMinDate)
        ELSE range.rangeStart,
     rangeEnd |-> range.rangeEnd]

\* A clamp that sets the range to the data, truncating as well as extending
DataRange_truncate(gran, range, dataMinDate, dataMaxDate) ==
    [rangeStart |->
        IF dataMinDate # NoDate
        THEN CASE gran = "day" -> startOfWeek(dataMinDate)
               [] gran = "week" -> startOfWeek(dataMinDate)
               [] gran = "month" -> startOfMonth(dataMinDate)
               [] gran = "quarter" -> startOfQuarter(dataMinDate)
        ELSE range.rangeStart,
     rangeEnd |->
        IF dataMaxDate # NoDate /\ dataMaxDate > range.rangeEnd
        THEN dataMaxDate
        ELSE range.rangeEnd]

\* Rule 1 of lines 59-68: extend the range to the data
DataRange(gran, range, dataMinDate, dataMaxDate) ==
    [rangeStart |->
        IF dataMinDate # NoDate /\ dataMinDate < range.rangeStart
        THEN CASE gran = "day" -> startOfWeek(dataMinDate)
               [] gran = "week" -> startOfWeek(dataMinDate)
               [] gran = "month" -> startOfMonth(dataMinDate)
               [] gran = "quarter" -> startOfQuarter(dataMinDate)
        ELSE range.rangeStart,
     rangeEnd |->
        IF dataMaxDate # NoDate /\ dataMaxDate > range.rangeEnd
        THEN dataMaxDate
        ELSE range.rangeEnd]

\* A generation that stops at rangeEnd, whatever the granularity
ColumnsOf_noExtra(gran, range) ==
    CASE gran = "day" ->
            Generate(gran, range.rangeStart, range.rangeEnd, <<>>)
      [] gran = "week" ->
            Generate(gran, startOfWeek(range.rangeStart), range.rangeEnd, <<>>)
      [] gran = "month" ->
            Generate(gran, startOfMonth(range.rangeStart), range.rangeEnd, <<>>)
      [] gran = "quarter" ->
            Generate(gran, startOfQuarter(range.rangeStart), range.rangeEnd, <<>>)

\* The generation of lines 70-99
ColumnsOf(gran, range) ==
    CASE gran = "day" ->
            Generate(gran, range.rangeStart, range.rangeEnd, <<>>)
      [] gran = "week" ->
            Generate(gran, startOfWeek(range.rangeStart),
                     addWeeks(range.rangeEnd, 1), <<>>)
      [] gran = "month" ->
            Generate(gran, startOfMonth(range.rangeStart),
                     addMonths(range.rangeEnd, 1), <<>>)
      [] gran = "quarter" ->
            Generate(gran, startOfQuarter(range.rangeStart),
                     addQuarters(range.rangeEnd, 1), <<>>)

\* getTimelineColumns(granularity, offset, dataMinDate, dataMaxDate), called
\* at the instant today
getTimelineColumns(gran, off, dataMinDate, dataMaxDate, today) ==
    ColumnsOf(gran,
              DataRange(gran, BaseRange(gran, off, today),
                        dataMinDate, dataMaxDate))

\* Column widths of 30 days a month whatever the month
columnWidthInDays_thirty(gran, colDate) ==
    CASE gran = "day" -> 1
      [] gran = "week" -> 7
      [] gran = "month" -> 30
      [] gran = "quarter" -> 90

\* columnWidthInDays(granularity, colDate)
columnWidthInDays(gran, colDate) ==
    CASE gran = "day" -> 1
      [] gran = "week" -> 7
      [] gran = "month" -> differenceInDays(addMonths(colDate, 1), colDate)
      [] gran = "quarter" -> differenceInDays(addQuarters(colDate, 1), colDate)

\* getBarPosition: totalTimelineDays, from the first column to the end of the
\* bucket of the last one
totalTimelineDays(columns, gran) ==
    LET timelineStart == columns[1]
        lastCol == columns[Len(columns)]
        timelineEndDate == addDays(lastCol, columnWidthInDays(gran, lastCol))
    IN differenceInDays(timelineEndDate, timelineStart)

\* Pixels as exact fractions num / den with den > 0.  The rounding of
\* JavaScript's doubles (a relative error of 2^-53 per operation) is left out.
Frac(num, den) == [num |-> num, den |-> den]

FracEq(a, b) == a.num * b.den = b.num * a.den

FracMax(a, b) == IF a.num * b.den >= b.num * a.den THEN a ELSE b

\* getBarPosition(startDate, endDate, columns, colWidth, granularity);
\* offsetDays * pixelsPerDay with pixelsPerDay = totalTimelineWidth /
\* totalTimelineDays
getBarPosition(startDate, endDate, columns, cw, gran) ==
    LET timelineStart == columns[1]
        days == totalTimelineDays(columns, gran)
        totalTimelineWidth == Len(columns) * cw
        offsetDays == differenceInDays(startDate, timelineStart)
        durationDays == differenceInDays(endDate, startDate) + 1
    IN [left |-> Frac(offsetDays * totalTimelineWidth, days),
        width |-> FracMax(Frac(durationDays * totalTimelineWidth, days), Frac(8, 1))]

\* isTodayInColumn(date, granularity), new Date() being the instant today
isTodayInColumn(date, gran, today) ==
    IF gran = "day"
    THEN DayOf(date) = DayOf(today)
    ELSE LET end == addDays(date, columnWidthInDays(gran, date) - 1)
         IN today >= date /\ today <= end

----------------------------------------------------------------------------
(* GanttBar and ScheduleView *)

GroupBys == {"team", "member", "project"}

\* No drag in progress: dragMode is null
NoDrag ==
    [mode |-> "none", id |-> NoId, origStartDate |-> <<>>, origEndDate |-> <<>>,
     currentTargetRowId |-> NoId]

DragModes == {"move", "resize-left", "resize-right"}

\* The data-row-id values: project ids when grouping by project, member ids
\* otherwise
RowIds == IF groupBy = "project" THEN Range(projects) ELSE Range(members)

\* ScheduleView.handleReassign(assignmentId, targetRowId)
handleReassign(c, mem, assignmentId, targetRowId, eager) ==
    IF groupBy = "project"
    THEN updateAssignment(c, mem, assignmentId, [projectId |-> targetRowId], eager)
    ELSE updateAssignment(c, mem, assignmentId, [memberId |-> targetRowId], eager)

\* daysDelta = Math.round(dx / Math.max(pixelsPerDay, 4)) with pixelsPerDay =
\* barWidth / (durationDays + 1): any number of days, but 0 when the bar's end
\* is the day before its start (the division gives Infinity)
DaysDeltas ==
    IF parseDate(dragState.origEndDate) - parseDate(dragState.origStartDate) + 1 = 0
    THEN {0}
    ELSE (0 - MaxDelta) .. MaxDelta

\* The dates a mousemove proposes, as days
ProposedDays(daysDelta) ==
    LET origStart == parseDate(dragState.origStartDate)
        origEnd == parseDate(dragState.origEndDate)
    IN CASE dragState.mode = "move" -> <<origStart + daysDelta, origEnd + daysDelta>>
         [] dragState.mode = "resize-left" ->
               IF origStart + daysDelta <= origEnd
               THEN <<origStart + daysDelta, origEnd>> ELSE <<origStart, origEnd>>
         [] dragState.mode = "resize-right" ->
               IF origEnd + daysDelta >= origStart
               THEN <<origStart, origEnd + daysDelta>> ELSE <<origStart, origEnd>>

\* The two onUpdate calls of handleMouseMove: the proposal and, when it is
\* rejected, the dates of the mousedown
MoveBar(c, mem, daysDelta, eager) ==
    LET days == ProposedDays(daysDelta)
        first == updateAssignment(c, mem, dragState.id,
                                  [startDate |-> dateToString(days[1]),
                                   endDate |-> dateToString(days[2])], eager)
    IN IF first.ret.success THEN first
       ELSE updateAssignment(first.c, mem, dragState.id,
                             [startDate |-> dragState.origStartDate,
                              endDate |-> dragState.origEndDate], eager)

\* The rows of a parsed schedule CSV: parseScheduleCsv keeps every row with a
\* member, a project and two non-empty date cells, whatever the dates are
CsvRow(memberId, projectId, startDate, endDate) ==
    [memberId |-> memberId, projectId |-> projectId,
     startDate |-> startDate, endDate |-> endDate]

\* The loop of handleCsvImport: one addAssignment per row, all in one event
\* handler; ids are the values of generateId, from id on
RECURSIVE ImportRows(_, _, _, _, _)
ImportRows(c, mem, rows, id, eager) ==
    IF rows = <<>> THEN [c |-> c, id |-> id]
    ELSE LET row == Head(rows)
             r == addAssignment(c, mem,
                                Assignment(NoId, row.memberId, row.projectId,
                                           row.startDate, row.endDate),
                                id, eager)
         IN ImportRows(r.c, mem, Tail(rows),
                       IF r.ret.success THEN id + 1 ELSE id, eager)

----------------------------------------------------------------------------
(* The hook operations, each called from its own event handler and followed *)
(* by the render that applies it.                                           *)

Op(op, id, data, ret) == [op |-> op, id |-> id, data |-> data, ret |-> ret]

NoData == [none |-> 0]

\* Proposals with startDate <= endDate
ValidRanges == {r \in DateStrings \X DateStrings : StrLe(r[1], r[2])}

\* What a caller can propose: a member and a project that exist
Proposals ==
    {Assignment(NoId, m, p, r[1], r[2]) :
        m \in Range(members), p \in Range(projects), r \in ValidRanges}

\* The data objects the callers pass to updateAssignment
UpdateData ==
    {[startDate |-> r[1], endDate |-> r[2]] : r \in ValidRanges}
    \cup {[memberId |-> m] : m \in Range(members)}
    \cup {[projectId |-> p] : p \in Range(projects)}

Commit(c) ==
    \E f \in {Render(assignments, c.ls, c.q)} :
        /\ assignments' = f.mem
        /\ localStorage' = f.ls

AddAssignment ==
    \E a \in Proposals, eager \in BOOLEAN :
        /\ nextId <= MaxIds
        /\ \E r \in {addAssignment(Ctx(localStorage, <<>>), assignments, a, nextId, eager)} :
              /\ Commit(r.c)
              /\ nextId' = IF r.ret.success THEN nextId + 1 ELSE nextId
        /\ UNCHANGED <<members, projects, lastOp, dragState, groupBy, granularity, offset, now, colWidth>>

\* The ids of the rendered assignments: each has a GanttBar, whose handlers
\* call updateAssignment and deleteAssignment with its id
Rendered == {assignments[i].id : i \in DOMAIN assignments}

UpdateAssignment ==
    \E id \in Rendered, data \in UpdateData, eager \in BOOLEAN :
        /\ \E r \in {updateAssignment(Ctx(localStorage, <<>>), assignments, id, data, eager)} :
              Commit(r.c)
        /\ UNCHANGED <<members, projects, nextId, lastOp, dragState, groupBy, granularity, offset, now, colWidth>>

DeleteAssignment ==
    \E id \in Rendered, eager \in BOOLEAN :
        /\ Commit(deleteAssignment(Ctx(localStorage, <<>>), assignments, id, eager))
        /\ UNCHANGED <<members, projects, nextId, lastOp, dragState, groupBy, granularity, offset, now, colWidth>>

\* deleteMember(id): setMembers, then setAssignments (never eager: the
\* members update is already pending)
DeleteMember ==
    \E id \in Range(members) :
        /\ members' = SelectSeq(members, LAMBDA m : m # id)
        /\ Commit(setAssignments(Ctx(localStorage, <<>>), assignments,
                                 Updater("removeMember", id, NoValue), FALSE))
        /\ UNCHANGED <<projects, nextId, lastOp, dragState, groupBy, granularity, offset, now, colWidth>>

\* deleteProject(id)
DeleteProject ==
    \E id \in Range(projects) :
        /\ projects' = SelectSeq(projects, LAMBDA p : p # id)
        /\ Commit(setAssignments(Ctx(localStorage, <<>>), assignments,
                                 Updater("removeProject", id, NoValue), FALSE))
        /\ UNCHANGED <<members, nextId, lastOp, dragState, groupBy, granularity, offset, now, colWidth>>

\* useState(getAssignments): the state starts as what the storage holds, the
\* seed data when the item is absent.
Init ==
    /\ localStorage \in {NoItem, saveAssignments(<<>>)}
    /\ assignments = getAssignments(localStorage)
    /\ members = <<1, 2>>
    /\ projects = <<1, 2>>
    /\ nextId = 1
    /\ lastOp = Op("none", NoId, NoData, Result(TRUE, <<>>))
    /\ dragState = NoDrag
    /\ groupBy = "team"
    /\ granularity = "day"
    /\ offset = 0
    /\ now = Noon(FirstToday)
    /\ colWidth = ZOOM_LEVELS.day.default

Next ==
    \/ AddAssignment
    \/ UpdateAssignment
    \/ DeleteAssignment
    \/ DeleteMember
    \/ DeleteProject

Spec == Init /\ [][Next]_vars

----------------------------------------------------------------------------
(* Single calls.  One call of findConflicts, addAssignment or               *)
(* updateAssignment is made on a store of any content, and lastOp keeps its *)
(* arguments and its full result.                                           *)

AllRanges == DateStrings \X DateStrings

Stored == getAssignments(localStorage)

\* Lists of k assignments with the ids 1..k, of any member and any dates,
\* ordered or not; the project, which no check reads, is the first.
StoreContents ==
    UNION {[1 .. k -> [memberId : MemberIds, projectId : {1},
                       startDate : DateStrings, endDate : DateStrings]] : k \in 0 .. MaxStored}

WithIds(list) ==
    [i \in DOMAIN list |->
        Assignment(i, list[i].memberId, list[i].projectId, list[i].startDate, list[i].endDate)]

CallInit ==
    /\ \E list \in StoreContents, present \in BOOLEAN :
          /\ present \/ list = <<>>
          /\ localStorage = [present |-> present, value |-> WithIds(list)]
          /\ nextId = Len(list) + 1
    /\ assignments = getAssignments(localStorage)
    /\ members = <<1, 2>>
    /\ projects = <<1, 2>>
    /\ lastOp = Op("none", NoId, NoData, Result(TRUE, <<>>))
    /\ dragState = NoDrag
    /\ groupBy = "team"
    /\ granularity = "day"
    /\ offset = 0
    /\ now = Noon(FirstToday)
    /\ colWidth = ZOOM_LEVELS.day.default

\* findConflicts(memberId, startDate, endDate, excludeAssignmentId)
CallFindConflicts ==
    \E m \in MemberIds, r \in AllRanges, excl \in {NoId} \cup AssignmentIds :
        /\ lastOp.op = "none"
        /\ lastOp' = Op("findConflicts", excl,
                        [memberId |-> m, startDate |-> r[1], endDate |-> r[2]],
                        Result(TRUE, findConflicts(localStorage, m, r[1], r[2], excl)))
        /\ UNCHANGED <<assignments, localStorage, members, projects, nextId, dragState, groupBy, granularity, offset, now, colWidth>>

\* The same check the other way round: the store holds only the proposal A of
\* the first call, and the range of the only assignment B it was checked
\* against is proposed.  data keeps whether the first call reported B.
CallFindConflictsSwapped ==
    /\ lastOp.op = "findConflicts"
    /\ lastOp.id = NoId
    /\ Len(Stored) = 1
    /\ Stored[1].memberId = lastOp.data.memberId
    /\ LET B == Stored[1]
           A == Assignment(B.id, B.memberId, B.projectId,
                           lastOp.data.startDate, lastOp.data.endDate)
       IN /\ localStorage' = saveAssignments(<<A>>)
          /\ assignments' = <<A>>
          /\ lastOp' = Op("findConflictsSwapped", NoId,
                          [reported |-> Len(lastOp.ret.conflicts) > 0],
                          Result(TRUE, findConflicts(localStorage', B.memberId,
                                                     B.startDate, B.endDate, NoId)))
    /\ UNCHANGED <<members, projects, nextId, dragState, groupBy, granularity, offset, now, colWidth>>

CallAddAssignment ==
    \E m \in MemberIds, p \in ProjectIds, r \in AllRanges, eager \in BOOLEAN :
        /\ lastOp.op = "none"
        /\ \E a \in {Assignment(NoId, m, p, r[1], r[2])} :
           \E res \in {addAssignment(Ctx(localStorage, <<>>), assignments, a, nextId, eager)} :
              /\ Commit(res.c)
              /\ nextId' = IF res.ret.success THEN nextId + 1 ELSE nextId
              /\ lastOp' = Op("addAssignment", NoId, a, res.ret)
        /\ UNCHANGED <<members, projects, dragState, groupBy, granularity, offset, now, colWidth>>

AllUpdateData ==
    {[startDate |-> r[1], endDate |-> r[2]] : r \in AllRanges}
    \cup {[memberId |-> m] : m \in MemberIds}
    \cup {[projectId |-> p] : p \in ProjectIds}

CallUpdateAssignment ==
    \E id \in AssignmentIds, data \in AllUpdateData, eager \in BOOLEAN :
        /\ lastOp.op = "none"
        /\ \E res \in {updateAssignment(Ctx(localStorage, <<>>), assignments, id, data, eager)} :
              /\ Commit(res.c)
              /\ lastOp' = Op("updateAssignment", id, data, res.ret)
        /\ UNCHANGED <<members, projects, nextId, dragState, groupBy, granularity, offset, now, colWidth>>

CallNext ==
    \/ CallFindConflicts
    \/ CallFindConflictsSwapped
    \/ CallAddAssignment
    \/ CallUpdateAssignment

CallSpec == CallInit /\ [][CallNext]_vars

----------------------------------------------------------------------------
(* The schedule view: every way an assignment is created or changed by the  *)
(* user.  Each action is one event handler with the render that follows.    *)

\* AssignmentDialog.handleSave with onSave = addAssignment; the fields hold a
\* member, a project and two dates picked in any order
DialogSave ==
    \E m \in Range(members), p \in Range(projects), r \in AllRanges, eager \in BOOLEAN :
        /\ dragState.mode = "none"
        /\ nextId <= MaxIds
        /\ IF StrGt(r[1], r[2])
           THEN UNCHANGED <<assignments, localStorage, nextId, granularity, offset, now, colWidth>>
           ELSE \E res \in {addAssignment(Ctx(localStorage, <<>>), assignments,
                                          Assignment(NoId, m, p, r[1], r[2]),
                                          nextId, eager)} :
                   /\ Commit(res.c)
                   /\ nextId' = IF res.ret.success THEN nextId + 1 ELSE nextId
        /\ UNCHANGED <<members, projects, lastOp, dragState, groupBy, granularity, offset, now, colWidth>>

\* GanttBar.handleMouseDown(e, mode) on the bar of a rendered assignment
GanttMouseDown ==
    \E i \in DOMAIN assignments, mode \in DragModes :
        /\ dragState.mode = "none"
        /\ dragState' = [mode |-> mode, id |-> assignments[i].id,
                         origStartDate |-> assignments[i].startDate,
                         origEndDate |-> assignments[i].endDate,
                         currentTargetRowId |-> NoId]
        /\ UNCHANGED <<assignments, localStorage, members, projects, nextId,
                       lastOp, groupBy,
                       granularity, offset, now, colWidth>>

\* handleMouseMove: the pointer is daysDelta days from the mousedown and over
\* the row targetRowId (NoId: over no row)
GanttMouseMove ==
    /\ dragState.mode # "none"
    /\ \E daysDelta \in DaysDeltas, targetRowId \in {NoId} \cup RowIds, eager \in BOOLEAN :
        /\ \A d \in Range(ProposedDays(daysDelta)) : d \in Days
        /\ IF daysDelta # 0
           THEN \E res \in {MoveBar(Ctx(localStorage, <<>>), assignments, daysDelta, eager)} :
                   Commit(res.c)
           ELSE UNCHANGED <<assignments, localStorage, granularity, offset, now, colWidth>>
        /\ dragState' = IF dragState.mode = "move"
                        THEN [dragState EXCEPT !.currentTargetRowId = targetRowId]
                        ELSE dragState
        /\ UNCHANGED <<members, projects, nextId, lastOp, groupBy, granularity, offset, now, colWidth>>

\* handleMouseUp: a move dropped on a row reassigns
GanttMouseUp ==
    \E eager \in BOOLEAN :
        /\ dragState.mode # "none"
        /\ IF dragState.mode = "move" /\ dragState.currentTargetRowId # NoId
           THEN \E res \in {handleReassign(Ctx(localStorage, <<>>), assignments, dragState.id,
                                           dragState.currentTargetRowId, eager)} :
                   Commit(res.c)
           ELSE UNCHANGED <<assignments, localStorage, granularity, offset, now, colWidth>>
        /\ dragState' = NoDrag
        /\ UNCHANGED <<members, projects, nextId, lastOp, groupBy, granularity, offset, now, colWidth>>

\* onContextMenu of a bar: onDelete(assignment.id)
GanttContextMenu ==
    \E id \in Rendered, eager \in BOOLEAN :
        /\ dragState.mode = "none"
        /\ Commit(deleteAssignment(Ctx(localStorage, <<>>), assignments, id, eager))
        /\ UNCHANGED <<members, projects, nextId, lastOp, dragState, groupBy, granularity, offset, now, colWidth>>

\* The group-by select: setGroupBy(v)
SetGroupBy ==
    \E v \in GroupBys \ {groupBy} :
        /\ dragState.mode = "none"
        /\ groupBy' = v
        /\ UNCHANGED <<assignments, localStorage, members, projects, nextId,
                       lastOp, dragState,
                       granularity, offset, now, colWidth>>

\* The previews a schedule CSV can give: rows of members and projects that
\* exist, with any two dates
CsvPreviews ==
    UNION {[1 .. k -> {CsvRow(m, p, r[1], r[2]) :
                          m \in Range(members), p \in Range(projects), r \in AllRanges}] :
           k \in 1 .. MaxRows}

\* ScheduleCsvDialog.handleCsvImport
CsvImport ==
    \E csvPreview \in CsvPreviews, eager \in BOOLEAN :
        /\ dragState.mode = "none"
        /\ nextId + Len(csvPreview) - 1 <= MaxIds
        /\ \E res \in {ImportRows(Ctx(localStorage, <<>>), assignments, csvPreview,
                                    nextId, eager)} :
              /\ Commit(res.c)
              /\ nextId' = res.id
        /\ UNCHANGED <<members, projects, lastOp, dragState, groupBy, granularity, offset, now, colWidth>>

\* groupBy is restored from the item "schedule-groupBy", "team" when absent
UiInit ==
    /\ localStorage \in {NoItem, saveAssignments(<<>>)}
    /\ assignments = getAssignments(localStorage)
    /\ members = <<1, 2>>
    /\ projects = <<1, 2>>
    /\ nextId = 1
    /\ lastOp = Op("none", NoId, NoData, Result(TRUE, <<>>))
    /\ dragState = NoDrag
    /\ groupBy \in GroupBys
    /\ granularity = "day"
    /\ offset = 0
    /\ now = Noon(FirstToday)
    /\ colWidth = ZOOM_LEVELS.day.default

UiNext ==
    \/ DialogSave
    \/ GanttMouseDown
    \/ GanttMouseMove
    \/ GanttMouseUp
    \/ GanttContextMenu
    \/ SetGroupBy
    \/ CsvImport

UiSpec == UiInit /\ [][UiNext]_vars

----------------------------------------------------------------------------
(* One schedule CSV import on the store as it is loaded: lastOp keeps the    *)
(* rows of the preview and the number of assignments the import created.    *)

CallCsvImport ==
    \E csvPreview \in CsvPreviews, eager \in BOOLEAN :
        /\ lastOp.op = "none"
        /\ nextId + Len(csvPreview) - 1 <= MaxIds
        /\ \E res \in {ImportRows(Ctx(localStorage, <<>>), assignments, csvPreview,
                                    nextId, eager)} :
              /\ Commit(res.c)
              /\ nextId' = res.id
              /\ lastOp' = Op("handleCsvImport", nextId,
                              [csvPreview |-> csvPreview, eager |-> eager],
                              res.id - nextId)
        /\ UNCHANGED <<members, projects, dragState, groupBy, granularity, offset, now, colWidth>>

ImportNext ==
    \/ CallCsvImport

ImportSpec == UiInit /\ [][ImportNext]_vars

----------------------------------------------------------------------------
(* One GanttBar drag on a store of any content: mousedown, mousemoves,      *)
(* mouseup.  lastOp keeps the list as it was at mousedown and the result of *)
(* the last proposal.  A store of any content is what CSV imports leave.    *)

\* Stores of k assignments with the ids 1..k, of any member, with
\* startDate <= endDate
DragStores ==
    UNION {[1 .. k -> {a \in [memberId : MemberIds, projectId : {1},
                               startDate : LaneDateStrings, endDate : LaneDateStrings] :
                          StrLe(a.startDate, a.endDate)}] :
           k \in 0 .. MaxStored}

\* The days the pointer is from the mousedown
DragDeltas == {0 - 2, 0 - 1, 0, 1, 2}

DragInit ==
    /\ \E list \in DragStores : assignments = WithIds(list)
    /\ localStorage = saveAssignments(assignments)
    /\ members = <<1, 2>>
    /\ projects = <<1, 2>>
    /\ nextId = Len(assignments) + 1
    /\ lastOp = Op("none", NoId, NoData, Result(TRUE, <<>>))
    /\ dragState = NoDrag
    /\ groupBy \in GroupBys
    /\ granularity = "day"
    /\ offset = 0
    /\ now = Noon(FirstToday)
    /\ colWidth = ZOOM_LEVELS.day.default

\* GanttBar.handleMouseDown(e, mode)
DragMouseDown ==
    \E i \in DOMAIN assignments, mode \in DragModes :
        /\ lastOp.op = "none"
        /\ dragState' = [mode |-> mode, id |-> assignments[i].id,
                         origStartDate |-> assignments[i].startDate,
                         origEndDate |-> assignments[i].endDate,
                         currentTargetRowId |-> NoId]
        /\ lastOp' = Op("mousedown", assignments[i].id, [stored |-> assignments],
                        Result(TRUE, <<>>))
        /\ UNCHANGED <<assignments, localStorage, members, projects, nextId,
                       groupBy, granularity, offset, now, colWidth>>

\* handleMouseMove; lastOp.ret is the result of the proposal's onUpdate
DragMouseMove ==
    /\ dragState.mode # "none"
    /\ \E daysDelta \in DragDeltas, targetRowId \in {NoId} \cup RowIds, eager \in BOOLEAN :
        /\ DaysDeltas = {0} => daysDelta = 0
        /\ \A d \in Range(ProposedDays(daysDelta)) : d \in LaneDays
        /\ IF daysDelta # 0
           THEN /\ \E res \in {MoveBar(Ctx(localStorage, <<>>), assignments, daysDelta, eager)} :
                      Commit(res.c)
                /\ lastOp' = Op("mousemove", dragState.id, lastOp.data,
                                updateAssignment(
                                    Ctx(localStorage, <<>>), assignments, dragState.id,
                                    [startDate |-> dateToString(ProposedDays(daysDelta)[1]),
                                     endDate |-> dateToString(ProposedDays(daysDelta)[2])],
                                    eager).ret)
           ELSE /\ UNCHANGED <<assignments, localStorage>>
                /\ lastOp' = Op("mousemove", dragState.id, lastOp.data, Result(TRUE, <<>>))
        /\ dragState' = IF dragState.mode = "move"
                        THEN [dragState EXCEPT !.currentTargetRowId = targetRowId]
                        ELSE dragState
        /\ UNCHANGED <<members, projects, nextId, groupBy, granularity, offset, now, colWidth>>

\* handleMouseUp
DragMouseUp ==
    \E eager \in BOOLEAN :
        /\ dragState.mode # "none"
        /\ IF dragState.mode = "move" /\ dragState.currentTargetRowId # NoId
           THEN \E res \in {handleReassign(Ctx(localStorage, <<>>), assignments, dragState.id,
                                           dragState.currentTargetRowId, eager)} :
                   Commit(res.c)
           ELSE UNCHANGED <<assignments, localStorage>>
        /\ dragState' = NoDrag
        /\ lastOp' = Op("mouseup", dragState.id, lastOp.data, Result(TRUE, <<>>))
        /\ UNCHANGED <<members, projects, nextId, groupBy, granularity, offset, now, colWidth>>

DragNext ==
    \/ DragMouseDown
    \/ DragMouseMove
    \/ DragMouseUp

DragSpec == DragInit /\ [][DragNext]_vars

----------------------------------------------------------------------------
(* The toolbar of ScheduleView: granularity, zoom and navigation.  lastOp    *)
(* keeps the last toolbar operation and the colWidth it found.               *)

\* The navigation steps the model follows from the default range
MaxNav == 4

\* useState initializers: granularity and groupBy as saved by an earlier
\* session ("day" and "team" when nothing is saved), colWidth the default of
\* the day granularity
ZoomInit ==
    /\ assignments = <<>>
    /\ localStorage = saveAssignments(assignments)
    /\ members = <<1, 2>>
    /\ projects = <<1, 2>>
    /\ nextId = 1
    /\ lastOp = Op("none", NoId, NoData, Result(TRUE, <<>>))
    /\ dragState = NoDrag
    /\ groupBy \in GroupBys
    /\ granularity \in Granularities
    /\ offset = 0
    /\ now = Noon(FirstToday)
    /\ colWidth = ZOOM_LEVELS.day.default

Min(a, b) == IF a < b THEN a ELSE b

Max(a, b) == IF a > b THEN a ELSE b

\* handleGranularityChange(value)
HandleGranularityChange ==
    \E g \in Granularities \ {granularity} :
        /\ granularity' = g
        /\ colWidth' = ZOOM_LEVELS[g].default
        /\ offset' = 0
        /\ lastOp' = Op("handleGranularityChange", NoId, [colWidth |-> colWidth],
                        Result(TRUE, <<>>))
        /\ UNCHANGED <<assignments, localStorage, members, projects, nextId,
                       dragState, groupBy, now>>

\* zoomIn()
ZoomIn ==
    /\ colWidth' = Min(colWidth + ZOOM_LEVELS[granularity].step,
                       ZOOM_LEVELS[granularity].max)
    /\ lastOp' = Op("zoomIn", NoId, [colWidth |-> colWidth], Result(TRUE, <<>>))
    /\ UNCHANGED <<assignments, localStorage, members, projects, nextId,
                   dragState, groupBy, granularity, offset, now>>

\* zoomOut()
ZoomOut ==
    /\ colWidth' = Max(colWidth - ZOOM_LEVELS[granularity].step,
                       ZOOM_LEVELS[granularity].min)
    /\ lastOp' = Op("zoomOut", NoId, [colWidth |-> colWidth], Result(TRUE, <<>>))
    /\ UNCHANGED <<assignments, localStorage, members, projects, nextId,
                   dragState, groupBy, granularity, offset, now>>

\* The previous, today and next buttons
Navigate ==
    \E navStep \in {IF granularity = "day" THEN 2 ELSE 1} :
        \E o \in {offset - navStep, 0, offset + navStep} :
            /\ o # offset
            /\ o >= 0 - MaxNav /\ o <= MaxNav
            /\ offset' = o
            /\ UNCHANGED <<assignments, localStorage, members, projects, nextId,
                           lastOp, dragState, groupBy, granularity, colWidth, now>>

ZoomNext ==
    \/ HandleGranularityChange
    \/ ZoomIn
    \/ ZoomOut
    \/ Navigate

ZoomSpec == ZoomInit /\ [][ZoomNext]_vars

----------------------------------------------------------------------------
(* The rows of ScheduleView on a store of any content: the groups and the   *)
(* lanes of every row, as the render computes them.                         *)

\* Stores of k assignments with the ids 1..k, of any member, project and
\* dates, ordered or not: what dialogs, drags and CSV imports leave
RowStores ==
    UNION {[1 .. k -> [memberId : MemberIds, projectId : ProjectIds,
                       startDate : LaneDateStrings, endDate : LaneDateStrings]] :
           k \in 0 .. MaxStored}

RowInit ==
    /\ \E list \in RowStores : assignments = WithIds(list)
    /\ localStorage = saveAssignments(assignments)
    /\ members = <<1, 2>>
    /\ projects = <<1, 2>>
    /\ nextId = Len(assignments) + 1
    /\ lastOp = Op("none", NoId, NoData, Result(TRUE, <<>>))
    /\ dragState = NoDrag
    /\ groupBy \in GroupBys
    /\ granularity = "day"
    /\ offset = 0
    /\ now = Noon(FirstToday)
    /\ colWidth = ZOOM_LEVELS.day.default

\* groups: one row per member (by team or by member) or per project, with the
\* assignments of that member or project in the order of the list
groups ==
    [rowId \in RowIds |->
        IF groupBy = "project"
        THEN SelectSeq(assignments, LAMBDA a : a.projectId = rowId)
        ELSE SelectSeq(assignments, LAMBDA a : a.memberId = rowId)]

\* rowLaneData: assignLanes of every row
rowLaneData(engine) == [rowId \in RowIds |-> assignLanes(groups[rowId], engine)]

\* The render of ScheduleView
RenderScheduleView ==
    \E engine \in Engines :
        /\ lastOp.op = "none"
        /\ lastOp' = Op("rowLaneData", NoId, [groups |-> groups, engine |-> engine],
                        rowLaneData(engine))
        /\ UNCHANGED <<assignments, localStorage, members, projects, nextId,
                       dragState, groupBy, granularity, offset, now, colWidth>>

RowNext ==
    \/ RenderScheduleView

RowSpec == RowInit /\ [][RowNext]_vars

----------------------------------------------------------------------------
(* Single calls of assignLanes on a row of any content, then on the same    *)
(* row in another order.                                                    *)

\* Rows of k assignments of any dates.  assignLanes reads neither the member
\* nor the project.
LaneRows ==
    UNION {[1 .. k -> [startDate : LaneDateStrings, endDate : LaneDateStrings]] :
           k \in 0 .. MaxLane}

\* The row of the first project: assignments with the ids 1..k, of the two
\* members in turn
LaneInit ==
    /\ \E list \in LaneRows :
          /\ assignments = [i \in DOMAIN list |->
                               Assignment(i, IF i % 2 = 1 THEN 1 ELSE 2, 1,
                                          list[i].startDate, list[i].endDate)]
          /\ nextId = Len(list) + 1
    /\ localStorage = saveAssignments(assignments)
    /\ members = <<1, 2>>
    /\ projects = <<1, 2>>
    /\ lastOp = Op("none", NoId, NoData, Result(TRUE, <<>>))
    /\ dragState = NoDrag
    /\ groupBy = "project"
    /\ granularity = "day"
    /\ offset = 0
    /\ now = Noon(FirstToday)
    /\ colWidth = ZOOM_LEVELS.day.default

\* rowLaneData: assignLanes(row.assignments)
CallAssignLanes ==
    \E engine \in Engines :
        /\ lastOp.op = "none"
        /\ lastOp' = Op("assignLanes", NoId,
                        [input |-> assignments, engine |-> engine],
                        assignLanes(assignments, engine))
        /\ UNCHANGED <<assignments, localStorage, members, projects, nextId,
                       dragState, groupBy,
                       granularity, offset, now, colWidth>>

\* The same call, by the same engine, on a permutation of the row; data keeps
\* the result of the first call
CallAssignLanesPermuted ==
    \E perm \in Permutations(DOMAIN assignments) :
        /\ lastOp.op = "assignLanes"
        /\ \E input \in {[i \in DOMAIN assignments |-> assignments[perm[i]]]} :
              lastOp' = Op("assignLanesPermuted", NoId,
                           [input |-> input, engine |-> lastOp.data.engine,
                            first |-> lastOp.ret],
                           assignLanes(input, lastOp.data.engine))
        /\ UNCHANGED <<assignments, localStorage, members, projects, nextId,
                       dragState, groupBy,
                       granularity, offset, now, colWidth>>

LaneNext ==
    \/ CallAssignLanes
    \/ CallAssignLanesPermuted

LaneSpec == LaneInit /\ [][LaneNext]_vars

----------------------------------------------------------------------------
(* Single calls of getTimelineColumns: at any instant of the days new Date() *)
(* ranges over, for every granularity and offset, without and with data      *)
(* bounds.                                                                   *)

Todays == FirstToday .. (FirstToday + NumTodays - 1)

Instants == {Midnight(d) + t : d \in Todays, t \in 0 .. (TicksPerDay - 1)}

\* The days of the data bounds, counted from the day of the call: parseDate
\* gives the midnight of the day. For each granularity: a day before the
\* default range, the day of the call, a day after the default range.
DataOffsets ==
    CASE granularity = "day" -> {0 - 20, 0, 70}
      [] granularity = "week" -> {0 - 40, 0, 130}
      [] granularity = "month" -> {0 - 100, 0, 400}
      [] granularity = "quarter" -> {0 - 250, 0, 1300}

DataDates == {addDays(Midnight(DayOf(now)), k) : k \in DataOffsets}

\* dataMinDate and dataMaxDate: the least startDate and the greatest endDate.
\* dataMinDate > dataMaxDate when every range is inverted.
DataPairs ==
    {p \in DataDates \X DataDates :
        \/ p[1] <= p[2]
        \/ \A d \in DataDates : p[2] <= d /\ d <= p[1]}

\* An upper estimate of the number of columns of a range
SpanOf(range) ==
    differenceInDays(range.rangeEnd, range.rangeStart)
        \div (CASE granularity = "day" -> 1
                [] granularity = "week" -> 7
                [] granularity = "month" -> 28
                [] granularity = "quarter" -> 89)

TimelineInit ==
    /\ localStorage = NoItem
    /\ assignments = getAssignments(localStorage)
    /\ members = <<1, 2>>
    /\ projects = <<1, 2>>
    /\ nextId = 1
    /\ lastOp = Op("none", NoId, NoData, Result(TRUE, <<>>))
    /\ dragState = NoDrag
    /\ groupBy = "team"
    /\ granularity \in Granularities
    /\ offset \in {0 - MaxOffset, 0, MaxOffset}
    /\ now \in Instants
    /\ colWidth = ZOOM_LEVELS.day.default

\* getTimelineColumns(granularity, offset, null, null): no assignment exists
CallGetTimelineColumns ==
    /\ lastOp.op = "none"
    /\ lastOp' = Op("getTimelineColumns", NoId,
                    [dataMinDate |-> NoDate, dataMaxDate |-> NoDate],
                    getTimelineColumns(granularity, offset, NoDate, NoDate, now))
    /\ UNCHANGED <<assignments, localStorage, members, projects, nextId,
                   dragState, groupBy, granularity, offset, now, colWidth>>

\* getTimelineColumns(granularity, offset, dataMinDate, dataMaxDate)
CallGetTimelineColumnsData ==
    \E dataMinDate \in DataDates, dataMaxDate \in DataDates :
        /\ lastOp.op = "none"
        /\ <<dataMinDate, dataMaxDate>> \in DataPairs
        /\ SpanOf(DataRange(granularity, BaseRange(granularity, offset, now),
                            dataMinDate, dataMaxDate)) <= MaxColumns
        /\ lastOp' = Op("getTimelineColumns", NoId,
                        [dataMinDate |-> dataMinDate, dataMaxDate |-> dataMaxDate],
                        getTimelineColumns(granularity, offset, dataMinDate,
                                           dataMaxDate, now))
        /\ UNCHANGED <<assignments, localStorage, members, projects, nextId,
                       dragState, groupBy, granularity, offset, now, colWidth>>

TimelineNext ==
    \/ CallGetTimelineColumns
    \/ CallGetTimelineColumnsData

TimelineSpec == TimelineInit /\ [][TimelineNext]_vars

----------------------------------------------------------------------------
(* The render of the timeline: TimelineHeader marks the column of today, at *)
(* the instant of the render.                                              *)

\* TimelineHeader: columns.map(col => isTodayInColumn(col, granularity))
TimelineHeader(columns, gran, today) ==
    [i \in DOMAIN columns |-> isTodayInColumn(columns[i], gran, today)]

RenderTimelineHeader ==
    /\ lastOp.op = "none"
    /\ LET columns == getTimelineColumns(granularity, offset, NoDate, NoDate, now)
       IN lastOp' = Op("TimelineHeader", NoId, [columns |-> columns],
                       TimelineHeader(columns, granularity, now))
    /\ UNCHANGED <<assignments, localStorage, members, projects, nextId,
                   dragState, groupBy, granularity, offset, now, colWidth>>

HeaderNext ==
    \/ RenderTimelineHeader

HeaderSpec == TimelineInit /\ [][HeaderNext]_vars

----------------------------------------------------------------------------
(* One GanttBar of an assignment that spans the bucket of a column: the     *)
(* columns ScheduleView generates for it and the position of the bar.       *)

\* The state of ScheduleView at any instant of the year, with the column
\* width of the first render or the widest of the granularity
BarInit ==
    /\ localStorage = NoItem
    /\ assignments = getAssignments(localStorage)
    /\ members = <<1, 2>>
    /\ projects = <<1, 2>>
    /\ nextId = 1
    /\ lastOp = Op("none", NoId, NoData, Result(TRUE, <<>>))
    /\ dragState = NoDrag
    /\ groupBy = "team"
    /\ granularity \in Granularities
    /\ offset = 0
    /\ now \in Instants
    /\ colWidth \in {ZOOM_LEVELS.day.default, ZOOM_LEVELS[granularity].max}

\* GanttBar: getBarPosition(parseDate(assignment.startDate),
\* parseDate(assignment.endDate), columns, colWidth, granularity) for the one
\* assignment of the schedule, which spans the bucket of column i
RenderGanttBar ==
    /\ lastOp.op = "none"
    /\ \E empty \in {getTimelineColumns(granularity, offset, NoDate, NoDate, now)} :
        \E i \in DOMAIN empty :
            \E endDate \in {addDays(empty[i], columnWidthInDays(granularity, empty[i]) - 1)} :
                \E columns \in {getTimelineColumns(granularity, offset, empty[i], endDate, now)} :
                    /\ columns[i] = empty[i]
                    /\ lastOp' = Op("getBarPosition", NoId,
                                    [columns |-> columns, i |-> i - 1,
                                     startDate |-> empty[i], endDate |-> endDate],
                                    getBarPosition(empty[i], endDate, columns, colWidth,
                                                   granularity))
    /\ UNCHANGED <<assignments, localStorage, members, projects, nextId,
                   dragState, groupBy, granularity, offset, now, colWidth>>

BarNext ==
    \/ RenderGanttBar

BarSpec == BarInit /\ [][BarNext]_vars

----------------------------------------------------------------------------
(* Properties of the store *)

\* The calendar days an assignment covers, both ends included
DaysOf(a) ==
    {d \in Days \cup LaneDays : parseDate(a.startDate) <= d /\ d <= parseDate(a.endDate)}

Overlap(a, b) == DaysOf(a) \cap DaysOf(b) # {}

PairwiseDisjoint(list) ==
    \A i, j \in DOMAIN list :
        (i # j /\ list[i].memberId = list[j].memberId) => ~Overlap(list[i], list[j])

\* C1: with every operation run to completion and every proposal ordered
\* (startDate <= endDate), two distinct stored assignments of one member never
\* overlap, in the rendered list and in the persisted one.
C1_NoMemberOverlap ==
    /\ PairwiseDisjoint(assignments)
    /\ PairwiseDisjoint(Stored)
    /\ \A i, j \in DOMAIN assignments : i # j => assignments[i].id # assignments[j].id

\* C1 witness: the second member, who has no seed assignment, holds two
\* assignments on adjacent days, the closest the operations let them come
C1_Witness ==
    \E i, j \in DOMAIN assignments :
        /\ assignments[i].memberId = 2
        /\ assignments[j].memberId = 2
        /\ parseDate(assignments[j].startDate) = parseDate(assignments[i].endDate) + 1

\* The closed-interval test on the dates themselves: [s1,e1] and [s2,e2]
\* overlap iff s1 <= e2 and s2 <= e1
Intersects(a, startDate, endDate) ==
    /\ parseDate(a.startDate) <= parseDate(endDate)
    /\ parseDate(startDate) <= parseDate(a.endDate)

\* The stored assignments of the member, other than id, a proposal overlaps
Clashes(list, memberId, startDate, endDate, id) ==
    {a \in Range(list) :
        /\ a.memberId = memberId
        /\ a.id # id
        /\ Intersects(a, startDate, endDate)}

\* C6: addAssignment with a range that overlaps an assignment of the member
\* returns success = false and the conflicting assignments, and changes
\* neither the rendered nor the persisted list.
C6_AddRejected ==
    [][(/\ lastOp'.op = "addAssignment"
        /\ Clashes(Stored, lastOp'.data.memberId, lastOp'.data.startDate,
                   lastOp'.data.endDate, NoId) # {})
       => (/\ lastOp'.ret.success = FALSE
           /\ Len(lastOp'.ret.conflicts) > 0
           /\ Range(lastOp'.ret.conflicts)
                = Clashes(Stored, lastOp'.data.memberId, lastOp'.data.startDate,
                          lastOp'.data.endDate, NoId)
           /\ assignments' = assignments
           /\ localStorage' = localStorage
           /\ nextId' = nextId)]_vars

\* C6 witness: an add was rejected with a conflict
C6_Witness ==
    /\ lastOp.op = "addAssignment"
    /\ ~lastOp.ret.success
    /\ Len(lastOp.ret.conflicts) > 0

\* The assignment an update would store
MergedOf(a, data) ==
    Assignment(a.id,
               IF "memberId" \in DOMAIN data THEN data.memberId ELSE a.memberId,
               IF "projectId" \in DOMAIN data THEN data.projectId ELSE a.projectId,
               IF "startDate" \in DOMAIN data THEN data.startDate ELSE a.startDate,
               IF "endDate" \in DOMAIN data THEN data.endDate ELSE a.endDate)

\* C7: updateAssignment whose merged assignment overlaps another assignment of
\* the merged member returns success = false with those conflicts and leaves
\* every stored assignment as it was; an unknown id gives success = false with
\* no conflicts and no change.
C7_UpdateRejected ==
    [][lastOp'.op = "updateAssignment" =>
        /\ (\A a \in Range(Stored) : a.id # lastOp'.id) =>
              /\ lastOp'.ret = Result(FALSE, <<>>)
              /\ assignments' = assignments
              /\ localStorage' = localStorage
        /\ \A a \in Range(Stored) :
              LET m == MergedOf(a, lastOp'.data)
                  others == Clashes(Stored, m.memberId, m.startDate, m.endDate, a.id)
              IN (a.id = lastOp'.id /\ others # {}) =>
                    /\ lastOp'.ret.success = FALSE
                    /\ Range(lastOp'.ret.conflicts) = others
                    /\ assignments' = assignments
                    /\ localStorage' = localStorage]_vars

\* C7 witness: an update was rejected because of another assignment
C7_Witness ==
    /\ lastOp.op = "updateAssignment"
    /\ ~lastOp.ret.success
    /\ \E c \in Range(lastOp.ret.conflicts) : c.id # lastOp.id

----------------------------------------------------------------------------
(* Properties of findConflicts *)

FcCall == lastOp.op = "findConflicts"

\* C2: findConflicts returns exactly the stored assignments of the member,
\* other than the excluded id, whose range meets the proposed one under the
\* closed-interval test, each once; the empty list when there is none.
C2_FindConflictsExact ==
    FcCall =>
        /\ Range(lastOp.ret.conflicts)
             = Clashes(Stored, lastOp.data.memberId, lastOp.data.startDate,
                       lastOp.data.endDate, lastOp.id)
        /\ Len(lastOp.ret.conflicts) = Cardinality(Range(lastOp.ret.conflicts))

\* C2 witness: a call that excludes an id and reports some, not all, of the
\* stored assignments
C2_Witness ==
    /\ FcCall
    /\ lastOp.id # NoId
    /\ Len(lastOp.ret.conflicts) > 0
    /\ Len(lastOp.ret.conflicts) < Len(Stored)

\* C3: the result of findConflicts never holds the assignment whose id is the
\* excluded id; so an update of an assignment to the dates it already has is
\* never rejected because of itself, and is accepted when no other assignment
\* of the member is in the way.
C3_SelfExcluded ==
    /\ [](FcCall => \A c \in Range(lastOp.ret.conflicts) : c.id # lastOp.id)
    /\ [][\A a \in Range(Stored) :
            (/\ lastOp'.op = "updateAssignment"
             /\ lastOp'.id = a.id
             /\ lastOp'.data = [startDate |-> a.startDate, endDate |-> a.endDate])
            => /\ \A c \in Range(lastOp'.ret.conflicts) : c.id # a.id
               /\ Clashes(Stored, a.memberId, a.startDate, a.endDate, a.id) = {}
                     => lastOp'.ret.success]_vars

\* C3 witness: the check an update to the own dates makes (own member, own
\* range, own id excluded) leaves the assignment out
C3_Witness ==
    /\ FcCall
    /\ \E a \in Range(Stored) :
          /\ a.id = lastOp.id
          /\ a.memberId = lastOp.data.memberId
          /\ a.startDate = lastOp.data.startDate
          /\ a.endDate = lastOp.data.endDate
          /\ parseDate(a.startDate) <= parseDate(a.endDate)
          /\ \A c \in Range(lastOp.ret.conflicts) : c # a

\* C4: ranges are closed at both ends.  For a stored assignment of the member
\* ending on day d and an ordered proposal starting on day s, s not before the
\* assignment's start, the assignment is reported iff s <= d.
C4_ClosedRanges ==
    (FcCall /\ parseDate(lastOp.data.startDate) <= parseDate(lastOp.data.endDate)) =>
        \A a \in Range(Stored) :
            (/\ a.memberId = lastOp.data.memberId
             /\ a.id # lastOp.id
             /\ parseDate(a.startDate) <= parseDate(lastOp.data.startDate))
            => (a \in Range(lastOp.ret.conflicts)
                  <=> parseDate(lastOp.data.startDate) <= parseDate(a.endDate))

\* C4 witness: a proposal starting on the day a longer assignment ends is
\* reported against it
C4_Witness ==
    /\ FcCall
    /\ \E a \in Range(lastOp.ret.conflicts) :
          /\ a.endDate = lastOp.data.startDate
          /\ parseDate(a.startDate) < parseDate(a.endDate)
          /\ parseDate(lastOp.data.startDate) <= parseDate(lastOp.data.endDate)

\* C5: the overlap test is symmetric.  Checking A against a store holding only
\* B reports B iff checking B against a store holding only A reports A.
C5_Symmetric ==
    lastOp.op = "findConflictsSwapped" =>
        (lastOp.data.reported <=> Len(lastOp.ret.conflicts) > 0)

\* C5 witness: two different ranges that do not overlap, checked both ways
C5_Witness ==
    /\ lastOp.op = "findConflictsSwapped"
    /\ ~lastOp.data.reported
    /\ Len(lastOp.ret.conflicts) = 0

----------------------------------------------------------------------------
(* Properties of the schedule view *)

Ordered(a) == parseDate(a.startDate) <= parseDate(a.endDate)

\* C8: every stored assignment has startDate <= endDate, in the rendered list
\* and in the persisted one, whatever the user does in the schedule view
\* (dialog save, bar move and resize, drag reassignment, CSV import).
C8_RangesOrdered ==
    /\ \A a \in Range(assignments) : Ordered(a)
    /\ \A a \in Range(Stored) : Ordered(a)

\* C24: in one schedule CSV import, a row that overlaps an assignment accepted
\* from an earlier row of the same import for the same member is skipped, so
\* once the queued updates are applied no two assignments of one member
\* overlap, in the rendered list and in the persisted one.  The rows have
\* startDate <= endDate.
C24_ImportRowsDisjoint ==
    (/\ lastOp.op = "handleCsvImport"
     /\ \A i \in DOMAIN lastOp.data.csvPreview : Ordered(lastOp.data.csvPreview[i])) =>
        /\ PairwiseDisjoint(assignments)
        /\ PairwiseDisjoint(getAssignments(localStorage))

C28_ColWidthInRange ==
    /\ ZOOM_LEVELS[granularity].min <= colWidth
    /\ colWidth <= ZOOM_LEVELS[granularity].max
    /\ lastOp.op = "zoomIn" => colWidth >= lastOp.data.colWidth
    /\ lastOp.op = "zoomOut" => colWidth <= lastOp.data.colWidth

\* No two assignments of one member overlap, by the days they cover and by
\* the inclusive test of findConflicts
NonOverlap(list) ==
    \A i, j \in DOMAIN list :
        (i # j /\ list[i].memberId = list[j].memberId) =>
            /\ ~Overlap(list[i], list[j])
            /\ ~Intersects(list[i], list[j].startDate, list[j].endDate)
            /\ ~Intersects(list[j], list[i].startDate, list[i].endDate)

\* C29: whenever the per-member non-overlap invariant holds for the store,
\* the row ScheduleView builds for a member (grouping by team or by member)
\* has every assignment in lane 0 and laneCount = 1; more than one lane occurs
\* only in rows grouped by project.
C29_MemberRowsOneLane ==
    (/\ lastOp.op = "rowLaneData"
     /\ NonOverlap(assignments) /\ NonOverlap(Stored)
     /\ groupBy # "project")
    => \A rowId \in DOMAIN lastOp.ret :
          /\ lastOp.ret[rowId].laneCount = 1
          /\ \A id \in DOMAIN lastOp.ret[rowId].lanes : lastOp.ret[rowId].lanes[id] = 0

DragOps == {"mousedown", "mousemove", "mouseup"}

\* C25: in a GanttBar drag, immediately after a mousemove whose proposed dates
\* updateAssignment rejects, the stored startDate and endDate of the dragged
\* assignment are those of the mousedown, however many earlier mousemoves of
\* the drag were accepted; and the drag changes no other stored assignment.
C25_RejectedMoveReverts ==
    /\ (lastOp.op = "mousemove" /\ ~lastOp.ret.success) =>
          \A list \in {assignments, getAssignments(localStorage)} :
              \A i \in DOMAIN list :
                  list[i].id = dragState.id =>
                      /\ list[i].startDate = dragState.origStartDate
                      /\ list[i].endDate = dragState.origEndDate
    /\ lastOp.op \in DragOps =>
          \A list \in {assignments, getAssignments(localStorage)} :
              /\ Len(list) = Len(lastOp.data.stored)
              /\ \A i \in DOMAIN list :
                    list[i].id # lastOp.id => list[i] = lastOp.data.stored[i]

----------------------------------------------------------------------------
(* Properties of assignLanes *)

LaneCall == lastOp.op = "assignLanes"

\* C9: on a row of assignments with distinct ids and startDate <= endDate,
\* every assignment gets a lane, and two distinct assignments in the same lane
\* cover no common day; one that starts on the day another ends is in another
\* lane.
C9_SameLaneDisjoint ==
    (LaneCall /\ \A a \in Range(lastOp.data.input) : Ordered(a)) =>
        /\ DOMAIN lastOp.ret.lanes = {a.id : a \in Range(lastOp.data.input)}
        /\ \A a, b \in Range(lastOp.data.input) :
              (a.id # b.id /\ lastOp.ret.lanes[a.id] = lastOp.ret.lanes[b.id])
              => /\ ~Overlap(a, b)
                 /\ ~Intersects(a, b.startDate, b.endDate)
                 /\ a.endDate # b.startDate

\* C9 witness: a row where an assignment of several days is followed by one
\* starting on its last day, in another lane, and two assignments share a lane
C9_Witness ==
    /\ LaneCall
    /\ \A a \in Range(lastOp.data.input) : Ordered(a)
    /\ \E a, b \in Range(lastOp.data.input) :
          /\ parseDate(a.startDate) < parseDate(a.endDate)
          /\ b.startDate = a.endDate
          /\ lastOp.ret.lanes[a.id] # lastOp.ret.lanes[b.id]
    /\ \E a, b \in Range(lastOp.data.input) :
          /\ a.id # b.id
          /\ lastOp.ret.lanes[a.id] = lastOp.ret.lanes[b.id]

\* The input of the call and what it returned
LaneInput == lastOp.data.input

LaneOf(a) == lastOp.ret.lanes[a.id]

\* Two ranges with no day in common, by the day sets and by the inclusive test
Disjoint(a, b) == ~Overlap(a, b) /\ ~Intersects(a, b.startDate, b.endDate)

C12_LaneCountAndKeys ==
    LaneCall =>
        IF Len(LaneInput) = 0
        THEN lastOp.ret.lanes = EmptyMap /\ lastOp.ret.laneCount = 1
        ELSE /\ DOMAIN lastOp.ret.lanes = {a.id : a \in Range(LaneInput)}
             /\ {LaneOf(a) : a \in Range(LaneInput)} = 0 .. (lastOp.ret.laneCount - 1)
             /\ lastOp.ret.laneCount >= 1

\* C12 witness: the call on the empty row
C12_Witness ==
    /\ LaneCall
    /\ Len(LaneInput) = 0
    /\ lastOp.ret.laneCount = 1
    /\ DOMAIN lastOp.ret.lanes = {}

\* The largest number of assignments of the row covering one day
MaxCover(list) ==
    LET cover(d) == Cardinality({i \in DOMAIN list : d \in DaysOf(list[i])})
    IN CHOOSE n \in 0 .. Len(list) :
          /\ \E d \in LaneDays : cover(d) = n
          /\ \A d \in LaneDays : cover(d) <= n

\* C13: for a non-empty row with startDate <= endDate throughout, laneCount is
\* the largest number of its assignments that cover one common day.
C13_LaneCountMinimal ==
    (/\ LaneCall
     /\ Len(LaneInput) >= 1
     /\ \A a \in Range(LaneInput) : Ordered(a))
    => lastOp.ret.laneCount = MaxCover(LaneInput)

\* C13 witness: three ordered assignments packed into two lanes, a lane reused
\* after the second lane was opened
C13_Witness ==
    /\ LaneCall
    /\ Len(LaneInput) = 3
    /\ \A a \in Range(LaneInput) : Ordered(a)
    /\ lastOp.ret.laneCount = 2
    /\ MaxCover(LaneInput) = 2
    /\ \E a, b, c \in Range(LaneInput) :
          /\ LaneOf(a) = 0 /\ LaneOf(b) = 1 /\ LaneOf(c) = 0
          /\ parseDate(a.endDate) < parseDate(c.startDate)
          /\ parseDate(b.endDate) >= parseDate(c.startDate)

\* C10: assignLanes does not depend on the order of its input: the call on a
\* permutation of a row returns the same id-to-lane mapping and the same
\* laneCount as the call on the row.
C10_OrderIndependent ==
    lastOp.op = "assignLanesPermuted" => lastOp.ret = lastOp.data.first

\* The order in which the call placed its input
Sorted == sort(<<>>, LaneInput, lastOp.data.engine)

\* Every assignment of a lane k > 0 overlaps, in each lane below k, an
\* assignment placed before it
FirstFit ==
    \A p \in DOMAIN Sorted :
        \A j \in 0 .. (LaneOf(Sorted[p]) - 1) :
            \E q \in 1 .. (p - 1) :
                /\ LaneOf(Sorted[q]) = j
                /\ Overlap(Sorted[q], Sorted[p])
                /\ Intersects(Sorted[q], Sorted[p].startDate, Sorted[p].endDate)

----------------------------------------------------------------------------
(* Properties of getTimelineColumns *)

TimelineCall == lastOp.op = "getTimelineColumns"

Columns == lastOp.ret

FirstColumn == Columns[1]

LastColumn == Columns[Len(Columns)]

HasData == lastOp.data.dataMinDate # NoDate /\ lastOp.data.dataMaxDate # NoDate

\* The last day of the bucket of a column: the column + columnWidthInDays - 1 days
BucketEnd(col) == addDays(col, columnWidthInDays(granularity, col) - 1)

\* The Monday of the week of a day, the months counted from January of year 0,
\* and the first day of such a month
MondayOf(day) == day - ((getDay(day) + 6) % 7)

MonthIndex(day) == getFullYear(day) * 12 + getMonth(day)

FirstOfMonth(index) == MakeDay(index \div 12, index % 12, 1)

\* The start of the bucket that contains an instant (a day is its own bucket)
BucketStart(d) ==
    CASE granularity = "day" -> Midnight(DayOf(d))
      [] granularity = "week" -> Midnight(MondayOf(DayOf(d)))
      [] granularity = "month" -> Midnight(FirstOfMonth(MonthIndex(DayOf(d))))
      [] granularity = "quarter" ->
            Midnight(FirstOfMonth(MonthIndex(DayOf(d)) - (MonthIndex(DayOf(d)) % 3)))

OneBucketApart(c, d) ==
    CASE granularity = "day" -> DayOf(d) = DayOf(c) + 1
      [] granularity = "week" -> DayOf(d) = DayOf(c) + 7
      [] granularity = "month" -> MonthIndex(DayOf(d)) = MonthIndex(DayOf(c)) + 1
      [] granularity = "quarter" -> MonthIndex(DayOf(d)) = MonthIndex(DayOf(c)) + 3

\* C15: the columns of getTimelineColumns are strictly increasing, each is the
\* start of a bucket of the granularity (a day, a Monday, the 1st of a month,
\* the 1st of a quarter) and each consecutive pair is exactly one bucket apart.
C15_ColumnsMonotonic ==
    TimelineCall =>
        LET columns == Columns
        IN \A i \in DOMAIN columns :
              /\ columns[i] = BucketStart(columns[i])
              /\ i < Len(columns) =>
                      /\ columns[i] < columns[i + 1]
                      /\ OneBucketApart(columns[i], columns[i + 1])

\* C15 witness: month columns that cross the end of a year, pulled back by the
\* data to a month before the default range
C15_Witness ==
    /\ TimelineCall /\ HasData
    /\ granularity = "month"
    /\ lastOp.data.dataMinDate < BaseRange(granularity, offset, now).rangeStart
    /\ \E i \in DOMAIN Columns :
          /\ i < Len(Columns)
          /\ getMonth(DayOf(Columns[i])) = 11
          /\ getMonth(DayOf(Columns[i + 1])) = 0

\* Navigation steps: 7 days, 4 weeks, 3 months, 2 quarters each
Steps(d, k) ==
    CASE granularity = "day" -> addDays(d, 7 * k)
      [] granularity = "week" -> addWeeks(d, 4 * k)
      [] granularity = "month" -> addMonths(d, 3 * k)
      [] granularity = "quarter" -> addQuarters(d, 2 * k)

\* The default look-back: the start of the bucket of today - 7 days, - 4 weeks,
\* - 2 months, - 2 quarters
LookBack ==
    CASE granularity = "day" -> Midnight(MondayOf(DayOf(now) - 7))
      [] granularity = "week" -> Midnight(MondayOf(DayOf(now) - 28))
      [] granularity = "month" -> Midnight(FirstOfMonth(MonthIndex(DayOf(now)) - 2))
      [] granularity = "quarter" ->
            Midnight(FirstOfMonth((MonthIndex(DayOf(now)) - 6)
                                  - ((MonthIndex(DayOf(now)) - 6) % 3)))

\* The default look-ahead: today + 60 days, + 12 weeks, the later of today + 6
\* months and December 31 of the year of today, today + 12 quarters
LookAhead ==
    CASE granularity = "day" -> now + 60 * TicksPerDay
      [] granularity = "week" -> now + 84 * TicksPerDay
      [] granularity = "month" ->
            IF addMonths(now, 6) > Midnight(MakeDay(getFullYear(DayOf(now)), 11, 31))
            THEN addMonths(now, 6)
            ELSE Midnight(MakeDay(getFullYear(DayOf(now)), 11, 31))
      [] granularity = "quarter" -> addMonths(now, 36)

ColumnsAtZero ==
    getTimelineColumns(granularity, 0, lastOp.data.dataMinDate,
                       lastOp.data.dataMaxDate, now)

\* C16: with now and the data bounds fixed, the offset moves one end only. For
\* offset k < 0 the last column is the last column at offset 0 and the base
\* range start is |k| navigation steps earlier; for k > 0 the first column is
\* the first column at offset 0 and the base range end is k steps later;
\* offset 0 gives the default range.
C16_OffsetMovesOneEnd ==
    TimelineCall =>
        LET base == BaseRange(granularity, offset, now)
            zero == BaseRange(granularity, 0, now)
            atZero == ColumnsAtZero
        IN /\ offset < 0 =>
                /\ LastColumn = atZero[Len(atZero)]
                /\ base.rangeStart = Steps(zero.rangeStart, offset)
                /\ base.rangeEnd = zero.rangeEnd
           /\ offset > 0 =>
                /\ FirstColumn = atZero[1]
                /\ base.rangeEnd = Steps(zero.rangeEnd, offset)
                /\ base.rangeStart = zero.rangeStart
           /\ offset = 0 =>
                /\ base.rangeStart = LookBack
                /\ base.rangeEnd = LookAhead

\* C16 witness: a call at a negative offset whose columns begin earlier than
\* at offset 0 and end on the same column
C16_Witness ==
    /\ TimelineCall
    /\ offset < 0
    /\ LET atZero == ColumnsAtZero
       IN /\ FirstColumn < atZero[1]
          /\ LastColumn = atZero[Len(atZero)]

ColumnsNoData == getTimelineColumns(granularity, offset, NoDate, NoDate, now)

DataInsideBase ==
    /\ HasData
    /\ LET base == BaseRange(granularity, offset, now)
       IN /\ lastOp.data.dataMinDate >= base.rangeStart
          /\ lastOp.data.dataMaxDate <= base.rangeEnd

\* C17: the data bounds only extend the timeline. The columns generated with
\* any data bounds include the columns generated with both absent, and with
\* both absent, or both inside the base range, the columns are exactly those
\* of the base range.
C17_DataOnlyExtends ==
    TimelineCall =>
        LET noData == ColumnsNoData
        IN /\ Range(noData) \subseteq Range(Columns)
           /\ (~HasData \/ DataInsideBase) => Columns = noData

\* C17 witness: data inside the base range that leaves the columns alone
C17_Witness ==
    /\ TimelineCall
    /\ DataInsideBase
    /\ Columns = ColumnsNoData

\* C18: when dataMinDate precedes the base rangeStart, the first column is the
\* start of the bucket that contains dataMinDate: the Monday of its week, the
\* 1st of its month, the 1st of its quarter, and dataMinDate itself for the
\* day granularity.
C18_FirstColumnIsDataBucket ==
    (/\ TimelineCall /\ HasData
     /\ lastOp.data.dataMinDate < BaseRange(granularity, offset, now).rangeStart) =>
        FirstColumn = BucketStart(lastOp.data.dataMinDate)

\* C19: at offset 0 with the data bounds absent, the first column is the
\* look-back bucket start: the Monday of the week of today - 7 days, the Monday
\* of the week of today - 4 weeks, the 1st of the month of today - 2 months, the
\* 1st of the quarter of today - 2 quarters.
C19_FirstColumnIsLookBack ==
    (TimelineCall /\ ~HasData /\ offset = 0) => FirstColumn = LookBack

\* C19 witness: month columns on 2024-06-15 begin at 2024-04-01
C19_Witness ==
    /\ TimelineCall /\ ~HasData /\ offset = 0
    /\ granularity = "month"
    /\ DayOf(now) = MakeDay(2024, 5, 15)
    /\ FirstColumn = Midnight(MakeDay(2024, 3, 1))

\* C20: at every offset >= 0 and for every today, the last day of the last
\* column's bucket is on or after the day of the look-ahead: today + 60 days,
\* today + 12 weeks, the later of today + 6 months and December 31 of the
\* current year, today + 12 quarters.
C20_ColumnsCoverLookAhead ==
    (TimelineCall /\ offset >= 0) =>
        DayOf(BucketEnd(LastColumn)) >= DayOf(LookAhead)

\* C20 witness: month columns of a call in March, which run to December 31
\* and not only to September
C20_Witness ==
    /\ TimelineCall /\ ~HasData /\ offset = 0
    /\ granularity = "month"
    /\ getMonth(DayOf(now)) = 2
    /\ DayOf(BucketEnd(LastColumn)) >= MakeDay(2024, 11, 31)

\* The range the columns are generated from: the base range extended to the
\* data bounds of the call
CallRange ==
    DataRange(granularity, BaseRange(granularity, offset, now),
              lastOp.data.dataMinDate, lastOp.data.dataMaxDate)

\* The start of the bucket after the bucket of an instant
NextBucketStart(d) ==
    CASE granularity = "day" -> Midnight(DayOf(d) + 1)
      [] granularity = "week" -> Midnight(MondayOf(DayOf(d)) + 7)
      [] granularity = "month" -> Midnight(FirstOfMonth(MonthIndex(DayOf(d)) + 1))
      [] granularity = "quarter" ->
            Midnight(FirstOfMonth(MonthIndex(DayOf(d)) - (MonthIndex(DayOf(d)) % 3) + 3))

\* C21: generation stops at a fixed place: for the day granularity the last
\* column is the day of rangeEnd, for week, month and quarter it is the bucket
\* immediately after the bucket that contains rangeEnd, never that bucket
\* itself and never the one after the next.
C21_OneBucketPastRangeEnd ==
    TimelineCall =>
        LET rangeEnd == CallRange.rangeEnd
        IN LastColumn = IF granularity = "day"
                        THEN Midnight(DayOf(rangeEnd))
                        ELSE NextBucketStart(rangeEnd)

\* C21 witness: month columns whose rangeEnd is December 31, the last day of
\* its bucket, end with January of the next year
C21_Witness ==
    /\ TimelineCall
    /\ granularity = "month"
    /\ DayOf(CallRange.rangeEnd) = MakeDay(2024, 11, 31)
    /\ LastColumn = Midnight(MakeDay(2025, 0, 1))

----------------------------------------------------------------------------
(* Properties of the rendered timeline *)

HeaderCall == lastOp.op = "TimelineHeader"

\* The bucket of a column holds the calendar date of today
HoldsToday(col) ==
    /\ DayOf(col) <= DayOf(now)
    /\ DayOf(now) <= DayOf(BucketEnd(col))

\* C22: for every granularity and every instant now, isTodayInColumn is true
\* for exactly the column whose bucket holds today's calendar date, so among
\* the columns of offset 0 exactly one is marked as today.
C22_OneColumnIsToday ==
    (HeaderCall /\ offset = 0) =>
        /\ \A i \in DOMAIN lastOp.ret :
              lastOp.ret[i] <=> HoldsToday(lastOp.data.columns[i])
        /\ Cardinality({i \in DOMAIN lastOp.ret : lastOp.ret[i]}) = 1

RECURSIVE SumOfWidths(_, _)
SumOfWidths(columns, n) ==
    IF n = 0 THEN 0
    ELSE SumOfWidths(columns, n - 1) + columnWidthInDays(granularity, columns[n])

WidthsOf ==
    CASE granularity = "day" -> {1}
      [] granularity = "week" -> {7}
      [] granularity = "month" -> 28 .. 31
      [] granularity = "quarter" -> 90 .. 92

\* C23: columnWidthInDays of every column is the number of days to the next
\* column (1, 7, 28..31, 90..92), so the widths of all columns sum to the
\* timeline length getBarPosition uses, the days from the first column to the
\* end of the last bucket.
C23_WidthsSumToTimeline ==
    TimelineCall =>
        LET columns == Columns
        IN /\ \A i \in DOMAIN columns :
                /\ columnWidthInDays(granularity, columns[i]) \in WidthsOf
                /\ i < Len(columns) =>
                      columnWidthInDays(granularity, columns[i])
                          = DayOf(columns[i + 1]) - DayOf(columns[i])
           /\ SumOfWidths(columns, Len(columns)) = totalTimelineDays(columns, granularity)

\* C23 witness: month columns with a February of 29 days and a month of 31
C23_Witness ==
    /\ TimelineCall
    /\ granularity = "month"
    /\ \E i, j \in DOMAIN Columns :
          /\ columnWidthInDays(granularity, Columns[i]) = 29
          /\ columnWidthInDays(granularity, Columns[j]) = 31
    /\ SumOfWidths(Columns, Len(Columns)) = totalTimelineDays(Columns, granularity)


\* C30: bars line up with the column grid. For every granularity and every
\* generated column sequence, an assignment whose startDate is the date of
\* column i (counted from 0) gets getBarPosition.left = i * colWidth, and one
\* spanning exactly the bucket of column i gets width = colWidth (colWidth
\* being at least 8).
C30_BarsOnGrid ==
    (lastOp.op = "getBarPosition" /\ colWidth >= 8) =>
        /\ FracEq(lastOp.ret.left, Frac(lastOp.data.i * colWidth, 1))
        /\ FracEq(lastOp.ret.width, Frac(colWidth, 1))

====
